---- MODULE Spec2Model ----
(***************************************************************************)
(* Bridge / road-segment conflation pipeline.                              *)
(*                                                                         *)
(*   Resolver      determine_final_osm_id.py  (hydrography approach)       *)
(*   Deduplicator  exclude_nearby_bridges.py                               *)
(*   Reconciler    get_merged_association_output.py                        *)
(*   Ledger        create_bridge_stats.py and the ledger updates of the    *)
(*                 Reconciler                                              *)
(*   Projection    get_point_projections_on_ways.py                        *)
(*   Scorer        calculate_match_percentage.py                           *)
(*   Pipeline      run-hydrography-pipeline.py and the stage entry points  *)
(*                                                                         *)
(* Tables are sequences of records (a pandas DataFrame in row order).      *)
(* A missing value (NaN / None / pd.NA) is the value NA.                   *)
(***************************************************************************)
EXTENDS Integers, Sequences, FiniteSets, TLC

VARIABLES
    join,        \* Resolver: rows of the all-join CSV merged with intersections
    inter,       \* Resolver: the table create_final_associations wrote
    rpc,         \* Resolver: "join" while the input is built, then "done" or
                 \*           the exception process_final_id raised
    bridge_df,   \* Deduplicator: similarity table, rows [sn, osm_similarity]
    join_df,     \* Deduplicator: nearby-bridge pairs, rows <<sn1, sn2>>
    remove_ids,  \* Deduplicator: the removal set
    di,          \* Deduplicator: number of pairs of join_df already iterated
    dlog,        \* Deduplicator: pairs logged as "not found in bridge_df"
    out_ids,     \* Deduplicator: structure numbers written to the output CSV
    dpc,         \* Deduplicator: "load", "loop", "done"
    hydro,       \* Reconciler: hydrography_df, one row per bridge
    mile,        \* Reconciler: milepoint_df, at most one row per bridge
    road_sim,    \* Reconciler: neighbouring_roads_similarity of each bridge
    merged,      \* Reconciler: rows of merged-approaches-association-output.csv
    mpc,         \* Reconciler: "load", "stats", "done"
    funnel,      \* Ledger: the stage output sizes create_bridge_statistics read
    stats,       \* Ledger: "bridges" column of the bridge-edit-stats CSV
    associations_df,    \* Projection: rows of the bridge-association CSV
    bridge_points_gdf,  \* Projection: the bridge point layer
    osm_ways_gdf,       \* Projection: the "lines" layer of the highways file
    projected_data,     \* Projection: output rows appended so far
    pidx,               \* Projection: number of association rows iterated
    ppc,         \* Projection: "load", "loop", "done", "failed"
    exploded_cols,  \* Scorer: columns of the exploded OSM data CSV
    score_df,    \* Scorer: bridge rows merged with the OSM names of their way
    match_df,    \* Scorer: rows of the match-percentage CSV
    spc,         \* Scorer: "load", "done", "failed"
    entry,       \* Pipeline: the function called, main or one of its wrappers
    stage,       \* Pipeline: position of the next stage in the stage list
    ran,         \* Pipeline: the stages called so far, with their work outcome
    plog,        \* Pipeline: entries of the pipeline log
    files,       \* Pipeline: state of the tables on disk
    run_status,  \* Pipeline: "running", "completed", "returned", "raised",
                 \*           "exited"
    config,      \* Pipeline: the configuration as yaml.safe_load returns it
    wkt_cell,    \* Coordinates: the WKT cell handed to extract_coordinates
    coordinates, \* Coordinates: what extract_coordinates returned or raised
    cpc,         \* Coordinates: "call", "done"
    ledger,      \* Ledger calls: the ledger table and stats_list, with the
                 \*               KeyError flag
    before,      \* Ledger calls: the ledger as it was before the last call
    call,        \* Ledger calls: description and count of the last call
    ucalls,       \* Ledger calls: number of update_stats calls made
    link_df,     \* Extractor: bridge_df, the bridge links still to be matched
    iter_params, \* Extractor: max_iterations, max_buffer, buffer_increment
                 \*            and the pandas build
    buffer_size, \* Extractor: the buffer of the next iteration
    iteration_count,  \* Extractor: iterations made
    final_df_list,    \* Extractor: the non-empty processed tables
    point_geom_list,  \* Extractor: the snapped points collected
    iterations,  \* Extractor: per iteration, the buffer used, the bridges
                 \*            worked on and the bridges matched
    ipc,          \* Extractor: "load", "loop", "done", "failed"
    all_lines_with_ids,  \* Walker: the ways, as (line, way_id) in order
    current_line,        \* Walker: the line the walk stands on
    remaining_distance,  \* Walker: the distance still to walk
    reverse,             \* Walker: walking from the start of the first line
    visited,             \* Walker: the way ids appended so far
    walk_path,           \* Walker: the lines entered, with the junction each
                         \*         was entered at and its far end
    calls,               \* Walker: calls of extend_along_connected_way made
    possible,            \* Walker: len(possible_next_lines) of the last call
    walk_result,         \* Walker: the returned point and way id
    wpc                  \* Walker: "load", "walk", "returned"

rvars == <<join, inter, rpc>>
dvars == <<bridge_df, join_df, remove_ids, di, dlog, out_ids, dpc>>
mvars == <<hydro, mile, road_sim, merged, mpc, funnel, stats>>
pvars == <<associations_df, bridge_points_gdf, osm_ways_gdf, projected_data,
           pidx, ppc>>
svars == <<exploded_cols, score_df, match_df, spc>>
lvars == <<entry, stage, ran, plog, files, run_status, config>>
cvars == <<wkt_cell, coordinates, cpc>>
uvars == <<ledger, before, call, ucalls>>
ivars == <<link_df, iter_params, buffer_size, iteration_count, final_df_list,
           point_geom_list, iterations, ipc>>
wvars == <<all_lines_with_ids, current_line, remaining_distance, reverse,
           visited, walk_path, calls, possible, walk_result, wpc>>
vars == <<rvars, dvars, mvars, pvars, svars, lvars, cvars, uvars, ivars, wvars>>

\* pd.NA / NaN, and None where pandas holds it in a float column.
NA == -1

\* The Python value None, where the code handles it apart from NaN.
None == -3

\* ---------------------------------------------------------------- bounds
\* Rows of the candidate join table.
MaxRows == 3
\* Structure numbers, OSM way ids and stream ids of the candidate table.
BridgeIds == {1, 2}
OsmIds == {1, 2}
StreamIds == {1, 2}
\* Longitudes of intersection points (the bridge is at longitude 0, and
\* every point of the model lies on latitude 0).
Longitudes == {1, 2}

\* ---------------------------------------------------------------- helpers
Abs(x) == IF x < 0 THEN -x ELSE x

\* pandas min(): the least non-NaN value of a set, NaN if there is none.
MinSkipNA(S) ==
    LET V == S \ {NA}
    IN  IF V = {} THEN NA ELSE CHOOSE m \in V : \A v \in V : m <= v

\* ------------------------------------------------------------- Resolver
\* The ValueError haversine raises on an argument that is not a number.
InvalidInput == -4

\* Great-circle distance. Only equality and order of distances are used by
\* the resolver; on the model's grid the distance is the sum of the
\* coordinate differences. math.radians(None) raises TypeError, turned into
\* ValueError; a NaN coordinate gives a NaN distance.
haversine(lon1, lat1, lon2, lat2) ==
    IF None \in {lon1, lat1, lon2, lat2} THEN InvalidInput
    ELSE IF NA \in {lon1, lat1, lon2, lat2} THEN NA
    ELSE Abs(lon2 - lon1) + Abs(lat2 - lat1)

\* A text is a sequence of one-character strings. str.strip:
RECURSIVE Strip(_)
Strip(s) ==
    IF s = <<>> THEN s
    ELSE IF Head(s) = " " THEN Strip(Tail(s))
    ELSE IF s[Len(s)] = " " THEN Strip(SubSeq(s, 1, Len(s) - 1))
    ELSE s

\* str.split(): the maximal runs of non-blank characters.
RECURSIVE Split(_)
Split(s) ==
    LET t == Strip(s)
        Blanks == {i \in 1..Len(t) : t[i] = " "}
    IN  IF t = <<>> THEN <<>>
        ELSE IF Blanks = {} THEN <<t>>
        ELSE LET i == CHOOSE x \in Blanks : \A y \in Blanks : x <= y
             IN  <<SubSeq(t, 1, i - 1)>> \o Split(SubSeq(t, i + 1, Len(t)))

\* str.replace(pat, ""): every occurrence of pat, left to right, is removed.
RECURSIVE Remove(_, _)
Remove(s, pat) ==
    IF Len(s) < Len(pat) THEN s
    ELSE IF SubSeq(s, 1, Len(pat)) = pat
    THEN Remove(SubSeq(s, Len(pat) + 1, Len(s)), pat)
    ELSE <<Head(s)>> \o Remove(Tail(s), pat)

\* The digits of the model and int() of a digit.
Digits == {"0", "1", "2", "3"}
DigitValue(c) == CASE c = "0" -> 0 [] c = "1" -> 1 [] c = "2" -> 2 [] OTHER -> 3
DigitOf(n) == CHOOSE c \in Digits : DigitValue(c) = n

\* float(token) succeeds on a non-empty run of digits (the number texts of
\* the model); FloatOf is its value.
IsFloat(token) ==
    token # <<>> /\ \A i \in 1..Len(token) : token[i] \in Digits

RECURSIVE FloatOf(_)
FloatOf(token) ==
    IF token = <<>> THEN 0
    ELSE 10 * FloatOf(SubSeq(token, 1, Len(token) - 1))
            + DigitValue(token[Len(token)])

\* The text "POINT (<lon> <lat>)" of a point with one-digit coordinates.
WKTPoint(lon, lat) ==
    <<"P", "O", "I", "N", "T", " ", "(", DigitOf(lon), " ", DigitOf(lat), ")">>

\* A missing WKT (NaN).
NoWKT == <<"NaN">>

\* The ValueError raised by extract_coordinates.
InvalidWKT == <<"ValueError">>

\* Returns <<lat, lon>>, <<None, None>> for a missing WKT, and raises for a
\* text that does not leave two float tokens once "POINT (" and ")" are
\* removed.
extract_coordinates(wkt) ==
    IF wkt = NoWKT THEN <<None, None>>
    ELSE LET coords == Remove(Remove(wkt, <<"P", "O", "I", "N", "T", " ", "(">>),
                              <<")">>)
             tokens == Split(coords)
         IN  IF Len(tokens) # 2 THEN InvalidWKT
             ELSE IF ~(IsFloat(tokens[1]) /\ IsFloat(tokens[2])) THEN InvalidWKT
             ELSE <<FloatOf(tokens[2]), FloatOf(tokens[1])>>

\* The rows of a table that belong to one bridge, in table order (groupby).
GroupOf(df, sn) == SelectSeq(df, LAMBDA r : r.sn = sn)

\* The stream nearest to a bridge (permanent_identifier_y of its rows):
\* bridge 1 stands next to stream 1, bridge 2 next to stream 2.
NearestStream(sn) == sn

\* The identifiers of the CSV files are numbers or texts; the text of the
\* number n is the value IdText(n). astype(str):
IdText(n) == 30 + n
IsText(v) == v > 30
astype_str(v) == IF IsText(v) THEN v ELSE IdText(v)

\* How read_csv types an identifier column: int64 when every cell is a
\* number, object (texts) otherwise.
IdDtypes == {"int64", "object"}
ReadId(n, dtype) == IF dtype = "object" THEN IdText(n) ELSE n

\* One row of merged_df: a row of the all-join CSV, whose osm_id and
\* permanent_identifier_x are cast to str and whose permanent_identifier_y
\* stays as read, left-merged with the intersection of its way and its
\* stream. WKT and gnis_name are columns of the intersection: both are NaN
\* when there is none. A way's name is an attribute of the way, a stream's
\* gnis_name of the stream; the bridge sits at longitude 0, latitude 0.
JoinRow(sn, osm, px, wkt, dtype) ==
    [sn |-> sn, osm_id |-> astype_str(ReadId(osm, dtype)), name |-> 10 + osm,
     px |-> astype_str(ReadId(px, dtype)),
     gnis_name |-> IF wkt = NoWKT THEN NA ELSE 20 + px,
     py |-> ReadId(NearestStream(sn), dtype),
     blong |-> 0, blat |-> 0, WKT |-> wkt]

JoinRows(dtype) ==
    {JoinRow(sn, osm, px, wkt, dtype) :
        sn \in BridgeIds, osm \in OsmIds, px \in StreamIds,
        wkt \in {NoWKT} \cup {WKTPoint(lon, 0) : lon \in Longitudes}}

\* The dtype of the identifier columns of a table that holds rows.
ColumnDtype(df) == IF IsText(df[1].py) THEN "object" ELSE "int64"

\* Lat_intersection and Long_intersection of row i: the Series of lines
\* 232-234 make float columns, in which None is NaN, unless every row is
\* (None, None), which leaves object columns holding None.
intersection_coordinates(df, i) ==
    LET c == extract_coordinates(df[i].WKT)
        float_columns == \E k \in 1..Len(df) : df[k].WKT # NoWKT
    IN  IF float_columns /\ c = <<None, None>> THEN <<NA, NA>> ELSE c

Haversine_dist(df, i) ==
    LET c == intersection_coordinates(df, i)
    IN  haversine(df[i].blong, df[i].blat, c[2], c[1])

\* apply(): the column a function of the row number yields, computed once
\* and held as a sequence.
Series(f) == f \o <<>>

\* Rows extended with Lat/Long_intersection, Haversine_dist, Is_Min_Dist,
\* Is_Stream_Identical and Unique_Bridge_OSM_Combinations; the ValueError of
\* haversine leaves the function.
create_intermediate_association(df) ==
    LET Lat_Long == Series([i \in 1..Len(df) |-> intersection_coordinates(df, i)])
        dist == Series([i \in 1..Len(df) |-> Haversine_dist(df, i)])
    IN  IF \E i \in 1..Len(df) : dist[i] = InvalidInput
        THEN [exc |-> "ValueError", df |-> <<>>]
        ELSE [exc |-> "None", df |->
          [i \in 1..Len(df) |->
            LET r == df[i]
                G == {k \in 1..Len(df) : df[k].sn = r.sn}
                dmin == MinSkipNA({dist[k] : k \in G})
            IN  [sn |-> r.sn, osm_id |-> r.osm_id, name |-> r.name,
                 px |-> r.px, gnis_name |-> r.gnis_name,
                 Lat_intersection |-> Lat_Long[i][1],
                 Long_intersection |-> Lat_Long[i][2],
                 Haversine_dist |-> dist[i],
                 Is_Min_Dist |-> (dist[i] # NA /\ dmin = dist[i]),
                 Is_Stream_Identical |-> (r.px = r.py),
                 Unique_Bridge_OSM_Combinations |->
                     Cardinality({df[k].osm_id : k \in G})]]]

NullAssociation ==
    [final_osm_id |-> NA, osm_name |-> NA, final_stream_id |-> NA,
     stream_name |-> NA, final_long |-> NA, final_lat |-> NA]

\* All six final fields taken from one row.
FromRow(r) ==
    [final_osm_id |-> r.osm_id, osm_name |-> r.name, final_stream_id |-> r.px,
     stream_name |-> r.gnis_name, final_long |-> r.Long_intersection,
     final_lat |-> r.Lat_intersection]

true_stream(group) == SelectSeq(group, LAMBDA r : r.Is_Stream_Identical)

min_dist(group) == SelectSeq(group, LAMBDA r : r.Is_Min_Dist)

\* Mutant: the anchor ignores the minimum-distance flag.
ComboOneAnchorRow_IgnoreMinDist(group) ==
    LET ts == true_stream(group)
    IN  IF Len(ts) >= 1 THEN ts[1] ELSE group[1]

\* combo-count == 1: the row whose intersection point becomes the anchor.
ComboOneAnchorRow(group) ==
    LET ts == true_stream(group)
        md == min_dist(group)
        mdm == SelectSeq(ts, LAMBDA r : r.Is_Min_Dist)
    IN  IF Len(ts) = 1 THEN ts[1]
        ELSE IF Len(ts) > 1
             THEN IF Len(mdm) # 0 THEN mdm[1] ELSE ts[1]
             ELSE IF Len(md) # 0 THEN md[1] ELSE group[1]

\* combo-count == 1: segment from the first row, stream from the first
\* minimum-distance row, anchor from ComboOneAnchorRow.
ComboOneResult(group) ==
    LET md == min_dist(group)
        a == ComboOneAnchorRow(group)
    IN  [final_osm_id |-> group[1].osm_id,
         osm_name |-> group[1].name,
         final_stream_id |-> IF Len(md) = 0 THEN NA ELSE md[1].px,
         stream_name |-> IF Len(md) = 0 THEN NA ELSE md[1].gnis_name,
         final_long |-> a.Long_intersection,
         final_lat |-> a.Lat_intersection]

\* Mutant: the minimum-distance row is preferred to a unique stream match.
ComboManyResult_MinDistFirst(group) ==
    LET ts == true_stream(group)
        md == min_dist(group)
    IN  IF Len(md) # 0 THEN FromRow(md[1])
        ELSE IF Len(ts) = 1 THEN FromRow(ts[1])
        ELSE NullAssociation

\* combo-count > 1.
ComboManyResult(group) ==
    LET ts == true_stream(group)
        md == min_dist(group)
    IN  IF Len(ts) = 1 THEN FromRow(ts[1])
        ELSE IF Len(md) # 0 THEN FromRow(md[1])
        ELSE NullAssociation

determine_final_osm_id(group) ==
    IF group[1].combo_count = 1
    THEN ComboOneResult(group)
    ELSE ComboManyResult(group)

\* combo-count per bridge merged back on every row.
WithComboCount(df) ==
    [i \in 1..Len(df) |->
        LET g == GroupOf(df, df[i].sn)
        IN  [sn |-> df[i].sn, osm_id |-> df[i].osm_id, name |-> df[i].name,
             px |-> df[i].px, gnis_name |-> df[i].gnis_name,
             Lat_intersection |-> df[i].Lat_intersection,
             Long_intersection |-> df[i].Long_intersection,
             Haversine_dist |-> df[i].Haversine_dist,
             Is_Min_Dist |-> df[i].Is_Min_Dist,
             Is_Stream_Identical |-> df[i].Is_Stream_Identical,
             Unique_Bridge_OSM_Combinations |->
                 df[i].Unique_Bridge_OSM_Combinations,
             combo_count |-> Cardinality({g[k].osm_id : k \in 1..Len(g)})]]

\* Mutant: the resolver is applied to the whole table, not to the group.
final_values_WholeTable(cdf, sn) == determine_final_osm_id(cdf)

\* The per-bridge result of groupby(...).apply(determine_final_osm_id).
final_values(cdf, sn) == determine_final_osm_id(GroupOf(cdf, sn))

\* Every row of the table with its bridge's final values merged back.
create_final_associations(df) ==
    LET cdf == WithComboCount(df)
    IN  [i \in 1..Len(cdf) |->
            [row |-> cdf[i], final |-> final_values(cdf, cdf[i].sn)]]

\* The files hold one more candidate row.
AddJoinRow ==
    /\ rpc = "join"
    /\ Len(join) < MaxRows
    /\ \E dtype \in IdDtypes :
        /\ IF join = <<>> THEN TRUE ELSE dtype = ColumnDtype(join)
        /\ \E r \in JoinRows(dtype) : join' = Append(join, r)
    /\ UNCHANGED <<inter, rpc>>

\* What merge_join_data_with_intersections raises when a file is missing
\* or empty, a column is missing, or anything else goes wrong.
ReadErrors == {"FileNotFoundError", "ValueError", "KeyError", "RuntimeError"}

\* What the read of the bridge data in add_bridge_details raises (lines
\* 334-349, in no try): the file is missing, a column is missing, the file
\* is empty, malformed, not text, or not readable.
BridgeDataErrors ==
    {"FileNotFoundError", "KeyError", "EmptyDataError", "ParserError",
     "UnicodeDecodeError", "PermissionError"}

\* process_final_id: the reads fail, or the table read is processed. An
\* exception of the association steps leaves the function with no final
\* table; once create_final_associations has written the table,
\* add_bridge_details reads the bridge data and either ends the function
\* or raises, the table staying written.
ProcessFinalId ==
    /\ rpc = "join"
    /\ IF join = <<>>
       THEN /\ rpc' \in ReadErrors
            /\ UNCHANGED inter
       ELSE LET t == create_intermediate_association(join)
            IN  IF t.exc # "None"
                THEN /\ rpc' = t.exc
                     /\ UNCHANGED inter
                ELSE /\ inter' = create_final_associations(t.df)
                     /\ rpc' \in {"done"} \cup BridgeDataErrors
    /\ UNCHANGED join

RInit == join = <<>> /\ inter = <<>> /\ rpc = "join"

\* --------------------------------------------------------- Deduplicator
\* Bridges of the nearby join and similarity scores of the table.
DedupIds == {1, 2, 3}
Similarities == {60, 90}
\* Rows of the nearby-join CSV.
MaxPairs == 3

\* Every similarity table with at most one row per bridge, in id order.
RECURSIVE TablesUpTo(_)
TablesUpTo(n) ==
    IF n = 0 THEN {<<>>}
    ELSE LET T == TablesUpTo(n - 1)
         IN  T \cup {Append(t, [sn |-> n, osm_similarity |-> s]) :
                        t \in T, s \in Similarities}

SimilarityTables == TablesUpTo(Cardinality(DedupIds))

\* Mutant: the self-pairs stay in the pair list.
filtered_df_KeepSelfPairs(jdf) == jdf

\* join_df without the self-pairs.
filtered_df(jdf) == SelectSeq(jdf, LAMBDA row : row[1] # row[2])

\* bridge_df.loc[bridge_df[sn] == x, "osm_similarity"].values
similarity_values(bdf, x) ==
    LET rows == SelectSeq(bdf, LAMBDA r : r.sn = x)
    IN  [i \in 1..Len(rows) |-> rows[i].osm_similarity]

\* .values[0] raises IndexError when the bridge has no row.
IndexError(bdf, sn1, sn2) ==
    \/ Len(similarity_values(bdf, sn1)) = 0
    \/ Len(similarity_values(bdf, sn2)) = 0

\* Mutant: on equal scores the first-listed bridge is removed.
RemovedOfPair_TieRemovesFirst(bdf, sn1, sn2) ==
    LET s1 == similarity_values(bdf, sn1)[1]
        s2 == similarity_values(bdf, sn2)[1]
    IN  IF s1 > s2 THEN sn2 ELSE sn1

\* The bridge the score comparison removes.
RemovedOfPair(bdf, sn1, sn2) ==
    LET s1 == similarity_values(bdf, sn1)[1]
        s2 == similarity_values(bdf, sn2)[1]
    IN  IF s1 > s2 THEN sn2
        ELSE IF s2 > s1 THEN sn1
        ELSE sn2

\* Mutant: a pair with a missing bridge removes its first bridge.
PairStep_RemoveOnMissing(bdf, rem, row) ==
    IF row[1] \notin rem /\ row[2] \notin rem
    THEN IF IndexError(bdf, row[1], row[2]) THEN rem \cup {row[1]}
         ELSE rem \cup {RemovedOfPair(bdf, row[1], row[2])}
    ELSE rem

\* One iteration of the loop body: the removal set after the pair.
PairStep(bdf, rem, row) ==
    IF row[1] \notin rem /\ row[2] \notin rem
    THEN IF IndexError(bdf, row[1], row[2]) THEN rem
         ELSE rem \cup {RemovedOfPair(bdf, row[1], row[2])}
    ELSE rem

\* Whether the iteration logs "id ... not found in bridge_df".
PairLogged(bdf, rem, row) ==
    /\ row[1] \notin rem
    /\ row[2] \notin rem
    /\ IndexError(bdf, row[1], row[2])

\* The whole loop over a pair list, as a fold.
RECURSIVE RemovalFold(_, _, _)
RemovalFold(bdf, rem, rows) ==
    IF rows = <<>> THEN rem
    ELSE RemovalFold(bdf, PairStep(bdf, rem, Head(rows)), Tail(rows))

RemovalSetOf(bdf, jdf) == RemovalFold(bdf, {}, filtered_df(jdf))

\* load_nearby_join delivers one more row of the CSV.
AddPair ==
    /\ dpc = "load"
    /\ Len(join_df) < MaxPairs
    /\ \E a \in DedupIds, b \in DedupIds : join_df' = Append(join_df, <<a, b>>)
    /\ UNCHANGED <<bridge_df, remove_ids, di, dlog, out_ids, dpc>>

\* filter_duplicates_and_output is entered: remove_ids = set().
StartFilter ==
    /\ dpc = "load"
    /\ dpc' = "loop"
    /\ remove_ids' = {}
    /\ di' = 0
    /\ UNCHANGED <<bridge_df, join_df, dlog, out_ids>>

\* One iteration of "for index, row in filtered_df.iterrows()".
ProcessPair ==
    /\ dpc = "loop"
    /\ di < Len(filtered_df(join_df))
    /\ LET row == filtered_df(join_df)[di + 1]
       IN  /\ remove_ids' = PairStep(bridge_df, remove_ids, row)
           /\ dlog' = IF PairLogged(bridge_df, remove_ids, row)
                      THEN Append(dlog, row) ELSE dlog
    /\ di' = di + 1
    /\ UNCHANGED <<bridge_df, join_df, out_ids, dpc>>

\* After the loop: bridge_df without the removed bridges is written.
WriteFiltered ==
    /\ dpc = "loop"
    /\ di = Len(filtered_df(join_df))
    /\ out_ids' = {bridge_df[i].sn : i \in 1..Len(bridge_df)} \ remove_ids
    /\ dpc' = "done"
    /\ UNCHANGED <<bridge_df, join_df, remove_ids, di, dlog>>

DInit ==
    /\ bridge_df \in SimilarityTables
    /\ join_df = <<>>
    /\ remove_ids = {}
    /\ di = 0
    /\ dlog = <<>>
    /\ out_ids = {}
    /\ dpc = "load"

DIdle ==
    /\ bridge_df = <<>>
    /\ join_df = <<>>
    /\ remove_ids = {}
    /\ di = 0
    /\ dlog = <<>>
    /\ out_ids = {}
    /\ dpc = "idle"

RIdle == join = <<>> /\ inter = <<>> /\ rpc = "idle"

\* ------------------------------------------------------------ Reconciler
similarity_threshold == 70

\* Bridges of the hydrography output handed to the merge.
MaxMergeBridges == 2
\* Segment ids of the two methods: the hydrography method's id is null or
\* way 1; the mile-point method's is way 1 (agreement) or way 2.
HydroOsmIds == {NA, 1}
MileOsmIds == {1, 2}
\* osm_similarity of the hydrography method, and the similarity of the
\* bridge names with the names of the roads next to the mile-point way.
HydroSimilarities == {69, 70}
RoadSimilarities == {0, 75}
ComboCounts == {1, 2}
\* The hydrography anchor point and the mile-point snapped point.
HydroPoint == <<7, 8>>
MilePoint == <<3, 4>>
NoGeometry == <<>>

\* One row of Final-bridges-with-percentage-match.csv.
HydroRow(sn, osm, sim, combos) ==
    [sn |-> sn, final_osm_id |-> osm, osm_similarity |-> sim,
     Unique_Bridge_OSM_Combinations |-> combos,
     final_long |-> IF osm = NA THEN NA ELSE HydroPoint[1],
     final_lat |-> IF osm = NA THEN NA ELSE HydroPoint[2]]

\* One row of osm_road_points.gpkg; an unsnapped bridge has no geometry.
MileRow(sn, osm, geom) == [bridge_id |-> sn, osm_id |-> osm, geometry |-> geom]

MileRowsOf(sn) ==
    {MileRow(sn, osm, geom) : osm \in MileOsmIds, geom \in {NoGeometry, MilePoint}}

\* Returns <<x, y>>, or <<None, None>> for a null geometry.
extract_geometry_coordinates(geom) ==
    IF geom = NoGeometry THEN <<NA, NA>> ELSE <<geom[1], geom[2]>>

\* pandas max(axis=1) skips NaN.
MaxSkipNA(a, b) ==
    IF a = NA THEN b ELSE IF b = NA THEN a ELSE IF a >= b THEN a ELSE b

\* hydrography_df left-merged with milepoint_df on the structure number and
\* with the neighbouring-roads similarity, with the derived columns.
merge_df(h, m, rs) ==
    [i \in 1..Len(h) |->
        LET ms == SelectSeq(m, LAMBDA r : r.bridge_id = h[i].sn)
            geom == IF Len(ms) = 0 THEN NoGeometry ELSE ms[1].geometry
            xy == extract_geometry_coordinates(geom)
        IN  [sn |-> h[i].sn,
             osm_id_hydro |-> h[i].final_osm_id,
             osm_id_mile |-> IF Len(ms) = 0 THEN NA ELSE ms[1].osm_id,
             geometry |-> geom,
             osm_similarity_hydro |-> h[i].osm_similarity,
             neighbouring_roads_similarity |-> rs[i],
             combined_max_similarity |-> MaxSkipNA(rs[i], h[i].osm_similarity),
             Unique_Bridge_OSM_Combinations |->
                 h[i].Unique_Bridge_OSM_Combinations,
             final_long |-> h[i].final_long,
             final_lat |-> h[i].final_lat,
             projected_long_mile |-> xy[1],
             projected_lat_mile |-> xy[2]]]

\* A comparison with a null is False.
SameOsmId(r) ==
    /\ r.osm_id_mile # NA
    /\ r.osm_id_hydro # NA
    /\ r.osm_id_mile = r.osm_id_hydro

\* Rows on which both approaches name the same way, null geometry removed.
agreed_rows(mdf) ==
    SelectSeq(SelectSeq(mdf, SameOsmId), LAMBDA r : r.geometry # NoGeometry)

\* Mutant: the mask takes the scores above the threshold.
mask_ScoreAbove(r, threshold) ==
    /\ r.Unique_Bridge_OSM_Combinations > 1
    /\ r.combined_max_similarity > threshold

\* The mask of line 251 for a value of the local similarity_threshold.
mask(r, threshold) ==
    /\ r.Unique_Bridge_OSM_Combinations > 1
    /\ r.combined_max_similarity < threshold

\* The osm_edits column for a value of the local similarity_threshold.
osm_edits_for(r, threshold) ==
    IF mask(r, threshold) THEN "Maproulette" ELSE "Automated"

maproulette_mask(r) == mask(r, similarity_threshold)

osm_edits(r) == IF maproulette_mask(r) THEN "Maproulette" ELSE "Automated"

\* Mutant: the hydrography anchor point is written as the coordinates.
output_rows_HydroPoint(mdf) ==
    LET a == agreed_rows(mdf)
    IN  [i \in 1..Len(a) |->
            [sn |-> a[i].sn,
             osm_id |-> a[i].osm_id_hydro,
             Unique_Bridge_OSM_Combinations |->
                 a[i].Unique_Bridge_OSM_Combinations,
             combined_max_similarity |-> a[i].combined_max_similarity,
             projected_long_mile |-> a[i].final_long,
             projected_lat_mile |-> a[i].final_lat,
             osm_edits |-> osm_edits(a[i])]]

\* The columns kept for merged-approaches-association-output.csv.
output_rows(mdf) ==
    LET a == agreed_rows(mdf)
    IN  [i \in 1..Len(a) |->
            [sn |-> a[i].sn,
             osm_id |-> a[i].osm_id_hydro,
             Unique_Bridge_OSM_Combinations |->
                 a[i].Unique_Bridge_OSM_Combinations,
             combined_max_similarity |-> a[i].combined_max_similarity,
             projected_long_mile |-> a[i].projected_long_mile,
             projected_lat_mile |-> a[i].projected_lat_mile,
             osm_edits |-> osm_edits(a[i])]]

\* The inputs hold one more bridge: its hydrography row, its mile-point row
\* if the mile-point method reached it, and its neighbouring-road similarity.
AddMergeBridge ==
    /\ mpc = "load"
    /\ Len(hydro) < MaxMergeBridges
    /\ LET sn == Len(hydro) + 1
       IN  /\ \E osm \in HydroOsmIds, sim \in HydroSimilarities, c \in ComboCounts :
                hydro' = Append(hydro, HydroRow(sn, osm, sim, c))
           /\ \/ mile' = mile
              \/ \E r \in MileRowsOf(sn) : mile' = Append(mile, r)
    /\ \E s \in RoadSimilarities : road_sim' = Append(road_sim, s)
    /\ UNCHANGED <<merged, mpc, funnel, stats>>

\* ---------------------------------------------------------------- Ledger
\* The Description column of the ledger, in row order.
Description ==
    << "Total bridges in the Kentucky NBI database.",
       "Not editing: overlapping bridges - bridges with duplicate coordinates",
       "Not editing: Non-posted culverts",
       "Not editing: Bridges already exist in OSM",
       "Not editing: Bridges near/on freeways",
       "Not editing: Bridges on opposite directions (parallel bridges) at the same location",
       "Not editing: Bridges near tunnel=culvert in OSM",
       "Not editing: Nearby bridges",
       "Not editing: Unsnapped",
       "Not editing: Different OSM NBI association in both approaches",
       "Not editing: MapRoulette bridges [(Multiple OSM ways within 30m bridge buffer) and (OSM road match % < 70)]",
       "Editing: Automated bridge edits" >>

HasDescription(description) ==
    \E i \in 1..Len(Description) : Description[i] = description

IndexOf(description) ==
    CHOOSE i \in 1..Len(Description) : Description[i] = description

RECURSIVE SumSeq(_)
SumSeq(q) == IF q = <<>> THEN 0 ELSE Head(q) + SumSeq(Tail(q))

\* Mutant: the entries already counted are not subtracted.
Remainder_TotalOnly(stats_list) == Head(stats_list)

\* stats_list[0] - sum(stats_list[1:])
Remainder(stats_list) == Head(stats_list) - SumSeq(Tail(stats_list))

\* The ledger while a program builds it: the "bridges" column, the running
\* stats_list, and whether update_stats raised KeyError.
Ledger(bridges, stats_list) ==
    [bridges |-> bridges, stats_list |-> stats_list, error |-> FALSE]

\* Mutant: the count is appended before the description is looked up.
update_stats_AppendFirst(l, description, count) ==
    IF l.error THEN l
    ELSE IF ~HasDescription(description)
    THEN [l EXCEPT !.error = TRUE, !.stats_list = Append(l.stats_list, count)]
    ELSE [l EXCEPT !.bridges[IndexOf(description)] = count,
                   !.stats_list = Append(l.stats_list, count)]

\* update_stats: KeyError when no row has the description, before anything
\* is changed; otherwise the count is appended to stats_list and written to
\* the row of the description.
update_stats(l, description, count) ==
    IF l.error THEN l
    ELSE IF ~HasDescription(description) THEN [l EXCEPT !.error = TRUE]
    ELSE [l EXCEPT !.bridges[IndexOf(description)] = count,
                   !.stats_list = Append(l.stats_list, count)]

\* The arguments of create_bridge_statistics and the lengths of the files
\* it reads.
Funnel(total, overlapping, culverts, yes, manmade, parallel, final, csv) ==
    [total_bridges |-> total,
     overlapping_or_duplicate_coordinates |-> overlapping,
     non_posted_culverts |-> culverts,
     yes_filter_bridges |-> yes,
     manmade_filter_bridges |-> manmade,
     parallel_filter_bridges |-> parallel,
     final_bridges |-> final,
     final_bridges_csv |-> csv]

NoFunnel == <<>>

\* The ledger after the eight updates of create_bridge_statistics.
create_bridge_statistics(f) ==
    LET l0 == Ledger([i \in 1..Len(Description) |-> 0], <<>>)
        l1 == update_stats(l0, Description[1], f.total_bridges)
        l2 == update_stats(l1, Description[2],
                           f.overlapping_or_duplicate_coordinates)
        l3 == update_stats(l2, Description[3], f.non_posted_culverts)
        l4 == update_stats(l3, Description[4],
                           Remainder(l3.stats_list) - f.yes_filter_bridges)
        l5 == update_stats(l4, Description[5],
                           Remainder(l4.stats_list) - f.manmade_filter_bridges)
        l6 == update_stats(l5, Description[6],
                           Remainder(l5.stats_list) - f.parallel_filter_bridges)
        l7 == update_stats(l6, Description[7],
                           Remainder(l6.stats_list) - f.final_bridges)
        l8 == update_stats(l7, Description[8],
                           Remainder(l7.stats_list) - f.final_bridges_csv)
    IN  l8

\* Rows of the merged table with a null point geometry.
unsnapped(mdf) ==
    Cardinality({i \in 1..Len(mdf) : mdf[i].geometry = NoGeometry})

\* Mutant: the mask is counted over the whole merged table.
maproulette_edits_AllRows(mdf) ==
    Cardinality({i \in 1..Len(mdf) : maproulette_mask(mdf[i])})

\* len(merge_df[mask]) on the rows kept by lines 239-242.
maproulette_edits(mdf) ==
    LET a == agreed_rows(mdf)
    IN  Cardinality({i \in 1..Len(a) : maproulette_mask(a[i])})

\* The ledger updates of main(): the ledger file is read, stats_list is its
\* entries above "Not editing: Unsnapped", and four entries are set.
merge_statistics(file, mdf) ==
    LET curr_index == IndexOf("Not editing: Unsnapped") - 1
        l0 == Ledger(file, SubSeq(file, 1, curr_index))
        l1 == update_stats(l0, "Not editing: Unsnapped", unsnapped(mdf))
        l2 == update_stats(l1,
                  "Not editing: Different OSM NBI association in both approaches",
                  Remainder(l1.stats_list) - Len(agreed_rows(mdf)))
        l3 == update_stats(l2,
                  "Not editing: MapRoulette bridges [(Multiple OSM ways within 30m bridge buffer) and (OSM road match % < 70)]",
                  maproulette_edits(mdf))
        l4 == update_stats(l3, "Editing: Automated bridge edits",
                           Remainder(l3.stats_list))
    IN  l4

\* Stage sizes of a run whose final CSV holds n bridges: either the NBI file
\* holds one more bridge, excluded for its duplicate coordinates, and every
\* stage output holds n; or the NBI file holds n bridges and the first
\* filter output holds one more.
MergeFunnels(n) ==
    {Funnel(n + 1, 1, 0, n, n, n, n, n), Funnel(n, 0, 0, n + 1, n, n, n, n)}

\* create_bridge_statistics of the hydrography pipeline: the hydrography
\* table is the final CSV it counts; the ledger is written.
CreateBridgeStatistics ==
    /\ mpc = "load"
    /\ Len(hydro) > 0
    /\ \E f \in MergeFunnels(Len(hydro)) :
        /\ funnel' = f
        /\ stats' = create_bridge_statistics(f).bridges
    /\ mpc' = "stats"
    /\ UNCHANGED <<hydro, mile, road_sim, merged>>

\* main() of get_merged_association_output, which needs the ledger file.
MergeMain ==
    /\ mpc = "stats"
    /\ LET mdf == merge_df(hydro, mile, road_sim)
           l == merge_statistics(stats, mdf)
       IN  IF l.error
           THEN mpc' = "failed" /\ UNCHANGED <<merged, stats>>
           ELSE /\ merged' = output_rows(mdf)
                /\ stats' = l.bridges
                /\ mpc' = "done"
    /\ UNCHANGED <<hydro, mile, road_sim, funnel>>

MInit ==
    /\ hydro = <<>>
    /\ mile = <<>>
    /\ road_sim = <<>>
    /\ merged = <<>>
    /\ mpc = "load"
    /\ funnel = NoFunnel
    /\ stats = <<>>

MIdle ==
    /\ hydro = <<>>
    /\ mile = <<>>
    /\ road_sim = <<>>
    /\ merged = <<>>
    /\ mpc = "idle"
    /\ funnel = NoFunnel
    /\ stats = <<>>

\* ------------------------------------------------------------ Projection
\* get_point_projections_on_ways.run. Lengths are whole feet on input and
\* hundredths of a metre on output; points lie on an integer grid and a way
\* is a horizontal segment [a, b] with a[1] <= b[1].
MaxAssociations == 2
AssocOsmIds == {NA, 1, 2}
LengthsFt == {10, 33}

\* The empty string written for an unavailable projection.
EmptyString == -2

\* str(int(x)) of a way id; the layer stores way ids as strings.
StrInt(x) == CASE x = 1 -> "1" [] x = 2 -> "2" [] OTHER -> "0"

Way(osm_id, a, b) == [osm_id |-> osm_id, geometry |-> [a |-> a, b |-> b]]

\* The highways layer holds way "1", or ways "1" and "2".
WayLayers ==
    { << Way("1", <<1, 5>>, <<4, 5>>) >>,
      << Way("1", <<1, 5>>, <<4, 5>>), Way("2", <<5, 1>>, <<8, 1>>) >> }

BridgePoint(sn) == [sn |-> sn, geometry |-> <<3 * sn, 2>>]

\* The bridge layer holds every bridge, or bridge 1 only.
PointLayers ==
    { [sn \in 1..(MaxAssociations + 1) |-> BridgePoint(sn)],
      << BridgePoint(1) >> }

\* LineString.project: distance along the line of the point nearest to p.
project(line, p) ==
    IF p[1] <= line.a[1] THEN 0
    ELSE IF p[1] >= line.b[1] THEN line.b[1] - line.a[1]
    ELSE p[1] - line.a[1]

\* LineString.interpolate: the point at distance d along the line.
interpolate(line, d) == <<line.a[1] + d, line.a[2]>>

project_point_on_line(point, line) == interpolate(line, project(line, point))

\* round(n / d, 0) for positive n and d, ties to the even neighbour.
RoundDiv(n, d) ==
    LET q == n \div d
        r == n % d
    IN  IF 2 * r < d THEN q
        ELSE IF 2 * r > d THEN q + 1
        ELSE IF q % 2 = 0 THEN q ELSE q + 1

\* round(bridge_length / 3.281, 2), in hundredths of a metre.
bridge_length_m(feet) == RoundDiv(feet * 100000, 3281)

\* The body of the try block: the exception it raises, if any, and the
\* projected point.
TryProject(row, points, ways) ==
    LET pts == SelectSeq(points, LAMBDA b : b.sn = row.sn)
        ws == SelectSeq(ways, LAMBDA w : w.osm_id = StrInt(row.final_osm_id))
    IN  IF row.final_osm_id = NA
        THEN [exc |-> "ValueError", point |-> <<>>]
        ELSE IF Len(pts) = 0 \/ Len(ws) = 0
        THEN [exc |-> "IndexError", point |-> <<>>]
        ELSE [exc |-> "None",
              point |-> project_point_on_line(pts[1].geometry, ws[1].geometry)]

\* Mutant: only ValueError is caught.
Caught_ValueErrorOnly == {"ValueError"}

\* except (ValueError, KeyError, IndexError)
Caught == {"ValueError", "KeyError", "IndexError"}

ProjectedRow(row, long, lat) ==
    [sn |-> row.sn, final_osm_id |-> row.final_osm_id,
     bridge_length |-> bridge_length_m(row.bridge_length),
     projected_long |-> long, projected_lat |-> lat]

\* The association CSV holds one more row.
AddAssociation ==
    /\ ppc = "load"
    /\ Len(associations_df) < MaxAssociations
    /\ \E osm \in AssocOsmIds, ft \in LengthsFt :
        associations_df' = Append(associations_df,
            [sn |-> Len(associations_df) + 1, final_osm_id |-> osm,
             bridge_length |-> ft])
    /\ UNCHANGED <<bridge_points_gdf, osm_ways_gdf, projected_data, pidx, ppc>>

\* Lines 24-43: the files are read.
StartProjection ==
    /\ ppc = "load"
    /\ Len(associations_df) > 0
    /\ ppc' = "loop"
    /\ UNCHANGED <<associations_df, bridge_points_gdf, osm_ways_gdf,
                   projected_data, pidx>>

\* One iteration of the loop of lines 45-101.
ProjectRow ==
    /\ ppc = "loop"
    /\ pidx < Len(associations_df)
    /\ LET row == associations_df[pidx + 1]
           t == TryProject(row, bridge_points_gdf, osm_ways_gdf)
       IN  IF t.exc = "None"
           THEN /\ projected_data' = Append(projected_data,
                        ProjectedRow(row, t.point[1], t.point[2]))
                /\ pidx' = pidx + 1
                /\ ppc' = ppc
           ELSE IF t.exc \in Caught
           THEN /\ projected_data' = Append(projected_data,
                        ProjectedRow(row, EmptyString, EmptyString))
                /\ pidx' = pidx + 1
                /\ ppc' = ppc
           ELSE /\ ppc' = "failed"
                /\ UNCHANGED <<projected_data, pidx>>
    /\ UNCHANGED <<associations_df, bridge_points_gdf, osm_ways_gdf>>

\* Lines 103-107: the output CSV is written.
WriteProjected ==
    /\ ppc = "loop"
    /\ pidx = Len(associations_df)
    /\ ppc' = "done"
    /\ UNCHANGED <<associations_df, bridge_points_gdf, osm_ways_gdf,
                   projected_data, pidx>>

\* The nearby-join CSV read by exclude_nearby_bridges: no pair, or one pair
\* of two bridges of the table.
NearbyJoins(rows) ==
    {<<>>} \cup UNION {{<< <<rows[a].sn, rows[b].sn>> >> :
                            b \in 1..Len(rows) \ {a}} : a \in 1..Len(rows)}

\* The rows the merge of calculate_match_percentage with the OSM names can
\* double: none, or the first, when its way has two rows of names.
DoubledRows == {0, 1}

\* The hydrography file read by main of the merge, made from the projected
\* rows. calculate_match_percentage scores every row on its own, also the
\* copy of a doubled row; exclude_nearby_bridges drops the bridge the score
\* comparison removes. No stage writes the column
\* Unique_Bridge_OSM_Combinations that main reads: the file is taken to
\* carry the combo-count of each bridge. The mile-point pipeline names a way
\* and a snapped point for every bridge.
HandOver ==
    /\ ppc = "done"
    /\ mpc = "wait"
    /\ LET n == Len(projected_data)
       IN  \E sims \in [1..n -> HydroSimilarities], c \in ComboCounts,
              doubled \in DoubledRows \cap 0..n,
              nearby \in NearbyJoins(projected_data), m \in MileOsmIds :
            \E copy_sim \in IF doubled = 0 THEN {0} ELSE HydroSimilarities :
            LET scored == [k \in 1..n |->
                              [sn |-> projected_data[k].sn,
                               final_osm_id |-> projected_data[k].final_osm_id,
                               osm_similarity |-> sims[k]]]
                merged_names ==
                    IF doubled = 0 THEN scored
                    ELSE SubSeq(scored, 1, doubled)
                            \o <<[scored[doubled] EXCEPT !.osm_similarity = copy_sim]>>
                            \o SubSeq(scored, doubled + 1, n)
                removed == RemovalSetOf(merged_names, nearby)
                final == SelectSeq(merged_names, LAMBDA r : r.sn \notin removed)
            IN  /\ hydro' = [k \in 1..Len(final) |->
                                HydroRow(final[k].sn, final[k].final_osm_id,
                                         final[k].osm_similarity, c)]
                /\ mile' = [k \in 1..n |->
                                MileRow(projected_data[k].sn, m, MilePoint)]
                /\ road_sim' = [k \in 1..Len(final) |-> 0]
    /\ mpc' = "load"
    /\ UNCHANGED <<merged, funnel, stats>>

PInit ==
    /\ associations_df = <<>>
    /\ bridge_points_gdf \in PointLayers
    /\ osm_ways_gdf \in WayLayers
    /\ projected_data = <<>>
    /\ pidx = 0
    /\ ppc = "load"

PIdle ==
    /\ associations_df = <<>>
    /\ bridge_points_gdf = <<>>
    /\ osm_ways_gdf = <<>>
    /\ projected_data = <<>>
    /\ pidx = 0
    /\ ppc = "idle"

\* The merge waits for the hydrography pipeline.
MWait ==
    /\ hydro = <<>>
    /\ mile = <<>>
    /\ road_sim = <<>>
    /\ merged = <<>>
    /\ mpc = "wait"
    /\ funnel = NoFunnel
    /\ stats = <<>>

\* ---------------------------------------------------------------- Scorer
\* calculate_match_percentage.py. A string is a sequence of one-character
\* strings; a null cell (NaN) is NullName.
NullName == <<"NaN">>

IsNull(s) == s = NullName

\* ord() of the characters of the model.
Ord(c) ==
    CASE c = " " -> 32 [] c = "-" -> 45 [] c = "A" -> 65
      [] c = "a" -> 97 [] c = "b" -> 98 [] c = "n" -> 110 [] OTHER -> 0

\* str.lower
Lower(c) == IF c = "A" THEN "a" ELSE c

\* \W of the regular expression of full_process
IsNonWord(c) == c \notin {"A", "a", "b", "n"}

\* utils.asciidammit: a value that is not a string is replaced by its str(),
\* which for the float NaN is "nan".
asciidammit(s) == IF IsNull(s) THEN <<"n", "a", "n">> ELSE s

\* utils.full_process with force_ascii: asciidammit, then non-word
\* characters become blanks, lower case, strip.
full_process(s) ==
    LET t == asciidammit(s)
    IN  Strip([i \in 1..Len(t) |->
                 IF IsNonWord(t[i]) THEN " " ELSE Lower(t[i])])

\* Lexicographic order of two strings.
RECURSIVE StrLeq(_, _)
StrLeq(a, b) ==
    IF a = <<>> THEN TRUE
    ELSE IF b = <<>> THEN FALSE
    ELSE IF Ord(Head(a)) < Ord(Head(b)) THEN TRUE
    ELSE IF Ord(Head(a)) > Ord(Head(b)) THEN FALSE
    ELSE StrLeq(Tail(a), Tail(b))

RECURSIVE Insert(_, _)
Insert(t, q) ==
    IF q = <<>> THEN <<t>>
    ELSE IF StrLeq(t, Head(q)) THEN <<t>> \o q
    ELSE <<Head(q)>> \o Insert(t, Tail(q))

RECURSIVE Sorted(_)
Sorted(q) == IF q = <<>> THEN <<>> ELSE Insert(Head(q), Sorted(Tail(q)))

\* " ".join(tokens)
RECURSIVE Join(_)
Join(q) ==
    IF q = <<>> THEN <<>>
    ELSE IF Len(q) = 1 THEN Head(q)
    ELSE Head(q) \o <<" ">> \o Join(Tail(q))

\* fuzz._process_and_sort
process_and_sort(s) == Strip(Join(Sorted(Split(full_process(s)))))

\* Length of the common run of a from i and b from j.
RECURSIVE CommonLen(_, _, _, _)
CommonLen(a, b, i, j) ==
    IF i > Len(a) \/ j > Len(b) THEN 0
    ELSE IF a[i] # b[j] THEN 0
    ELSE 1 + CommonLen(a, b, i + 1, j + 1)

\* SequenceMatcher.find_longest_match: a longest common block, the one that
\* starts earliest in a and, among those, earliest in b.
find_longest_match(a, b) ==
    LET P == (1..Len(a)) \X (1..Len(b))
        Better(p, q) ==
            \/ CommonLen(a, b, p[1], p[2]) > CommonLen(a, b, q[1], q[2])
            \/ /\ CommonLen(a, b, p[1], p[2]) = CommonLen(a, b, q[1], q[2])
               /\ \/ p[1] < q[1]
                  \/ p[1] = q[1] /\ p[2] <= q[2]
        best == CHOOSE p \in P : \A q \in P : Better(p, q)
    IN  [i |-> best[1], j |-> best[2], k |-> CommonLen(a, b, best[1], best[2])]

\* Sum of the sizes of SequenceMatcher.get_matching_blocks.
RECURSIVE matches(_, _)
matches(a, b) ==
    IF a = <<>> \/ b = <<>> THEN 0
    ELSE LET m == find_longest_match(a, b)
         IN  IF m.k = 0 THEN 0
             ELSE m.k
                  + matches(SubSeq(a, 1, m.i - 1), SubSeq(b, 1, m.j - 1))
                  + matches(SubSeq(a, m.i + m.k, Len(a)),
                            SubSeq(b, m.j + m.k, Len(b)))

\* fuzz.ratio with its decorators: 100 on equal strings, 0 on an empty one,
\* else int(round(100 * 2 * M / T)).
ratio(s1, s2) ==
    IF s1 = s2 THEN 100
    ELSE IF s1 = <<>> \/ s2 = <<>> THEN 0
    ELSE RoundDiv(200 * matches(s1, s2), Len(s1) + Len(s2))

token_sort_ratio(s1, s2) == ratio(process_and_sort(s1), process_and_sort(s2))

\* vectorized_fuzz on one row: 0 unless both cells are non-null.
vectorized_fuzz(s1, s2) ==
    IF IsNull(s1) \/ IsNull(s2) THEN 0 ELSE token_sort_ratio(s1, s2)

\* calculate_osm_similarity of the merge (and of the earlier script 04): the
\* cell values go to fuzz.token_sort_ratio as they are, a NaN cell included.
calculate_osm_similarity(name, target) == token_sort_ratio(name, target)

\* The lambda of calculate_similarity_for_neighbouring_roads on one row: the
\* maximum of calculate_osm_similarity over the alias cells of the row.
scalar_similarity(row, cols, fixed_col) ==
    LET S == {calculate_osm_similarity(row[cols[i]], row[fixed_col]) :
                i \in {k \in 1..Len(cols) : cols[k] \in DOMAIN row}}
    IN  CHOOSE m \in S : \A x \in S : x <= m

\* Rows of the table handed to the scorer.
MaxScoreRows == 2

fixed_column_1 == "7 - Facility Carried By Structure"
fixed_column_2 == "6A - Features Intersected"

\* The first columns of the list of line 130 (the model keeps two of the
\* sixteen name columns).
osm_cols_for_road_names == <<"osm_id", "name", "ref">>
nhd_cols_for_stream_name == <<"stream_name">>

\* Cell values of the bridge names, the OSM names and the stream name.
FacilityNames == {<<"a", " ", "b">>, <<"-">>, NullName}
FeatureNames == {<<"b">>, NullName}
OsmNames == {<<"b", " ", "a">>, <<"A">>, NullName}
OsmRefs == {<<"b">>, NullName}
StreamNames == {<<"b">>}

\* The exploded OSM data CSV holds every requested column, or lacks "ref".
ExplodedColumnSets == {{"osm_id", "name", "ref"}, {"osm_id", "name"}}

\* A mutant of idxmax: the last column that holds the maximum.
idxmax_Last(scores, cols) ==
    LET M == CHOOSE m \in {scores[c] : c \in DOMAIN scores} :
                \A c \in DOMAIN scores : scores[c] <= m
        I == {i \in 1..Len(cols) : scores[cols[i]] = M}
    IN  cols[CHOOSE i \in I : \A k \in I : k <= i]

\* DataFrame.idxmax(axis=1): the first column that holds the maximum.
idxmax(scores, cols) ==
    LET M == CHOOSE m \in {scores[c] : c \in DOMAIN scores} :
                \A c \in DOMAIN scores : scores[c] <= m
        I == {i \in 1..Len(cols) : scores[cols[i]] = M}
    IN  cols[CHOOSE i \in I : \A k \in I : i <= k]

\* calculate_similarity_vectorized, for every row of df the pair
\* (max_scores, max_cols); an empty score table leaves both NaN.
calculate_similarity_vectorized(df, cols, fixed_column) ==
    [r \in 1..Len(df) |->
        LET present == SelectSeq(cols, LAMBDA c : c \in DOMAIN df[r])
            similarity_scores ==
                [c \in {present[i] : i \in 1..Len(present)} |->
                    vectorized_fuzz(df[r][c], df[r][fixed_column])]
            max_scores ==
                CHOOSE m \in {similarity_scores[c] : c \in DOMAIN similarity_scores} :
                    \A c \in DOMAIN similarity_scores : similarity_scores[c] <= m
        IN  IF present = <<>> THEN [score |-> NA, col |-> "NaN"]
            ELSE [score |-> max_scores,
                  col |-> IF max_scores = 0 THEN ""
                          ELSE idxmax(similarity_scores, present)]]

\* Lines 149-166 of run: the OSM similarity against both bridge names, the
\* second replacing the first where it is strictly greater, and the stream
\* similarity.
match_percentage(df, available_osm_road_names) ==
    LET s1 == calculate_similarity_vectorized(df, available_osm_road_names,
                                              fixed_column_1)
        s2 == calculate_similarity_vectorized(df, available_osm_road_names,
                                              fixed_column_2)
        n == calculate_similarity_vectorized(df, nhd_cols_for_stream_name,
                                             fixed_column_2)
    IN  [r \in 1..Len(df) |->
            LET above == s2[r].score > s1[r].score
            IN  [row |-> df[r],
                 osm_similarity |-> IF above THEN s2[r].score ELSE s1[r].score,
                 osm_similarity_col |-> IF above THEN s2[r].col ELSE s1[r].col,
                 nhd_similarity |-> n[r].score,
                 nhd_similarity_col |-> n[r].col]]

\* A bridge row merged with the names of its way (line 141).
ScoreRow(facility, features, name, ref, stream, columns) ==
    LET all == (fixed_column_1 :> facility) @@ (fixed_column_2 :> features)
                @@ ("name" :> name) @@ ("ref" :> ref)
                @@ ("stream_name" :> stream)
    IN  [c \in (DOMAIN all) \ ({"ref"} \ columns) |-> all[c]]

\* The merged table holds one more row.
AddScoreRow ==
    /\ spc = "load"
    /\ Len(score_df) < MaxScoreRows
    /\ \E f1 \in FacilityNames, f2 \in FeatureNames, n \in OsmNames,
          r \in (IF "ref" \in exploded_cols THEN OsmRefs ELSE {NullName}),
          st \in StreamNames :
        score_df' = Append(score_df, ScoreRow(f1, f2, n, r, st, exploded_cols))
    /\ UNCHANGED <<exploded_cols, match_df, spc>>

\* run of calculate_match_percentage: a requested column missing from the
\* exploded CSV raises; otherwise the table with the scores is written.
RunMatchPercentage ==
    /\ spc = "load"
    /\ Len(score_df) > 0
    /\ IF \E i \in 1..Len(osm_cols_for_road_names) :
              osm_cols_for_road_names[i] \notin exploded_cols
       THEN spc' = "failed" /\ UNCHANGED match_df
       ELSE /\ match_df' = match_percentage(score_df,
                               Tail(osm_cols_for_road_names))
            /\ spc' = "done"
    /\ UNCHANGED <<exploded_cols, score_df>>

SInit ==
    /\ exploded_cols \in ExplodedColumnSets
    /\ score_df = <<>>
    /\ match_df = <<>>
    /\ spc = "load"

SIdle ==
    /\ exploded_cols = {}
    /\ score_df = <<>>
    /\ match_df = <<>>
    /\ spc = "idle"

\* -------------------------------------------------------------- Pipeline
\* run-hydrography-pipeline.py: main calls the stages in this order inside
\* one try block; associate_join_data holds the last five.
MainStages ==
    <<"create_directories", "filter_osm_data", "filter_nbi_data", "tag_data",
      "process_all_join", "process_final_id", "get_point_projections_on_ways",
      "calculate_match_percentage", "exclude_nearby_bridges">>

AssociateStages == SubSeq(MainStages, 5, 9)

\* The functions of the script that take the configuration and call stages:
\* main, and the four wrappers main calls after create_directories.
Wrappers ==
    {"filter_osm_data", "filter_nbi_data", "tag_data", "associate_join_data"}

Entries == {"main"} \cup Wrappers

StagesOf(e) ==
    IF e = "main" THEN MainStages
    ELSE IF e = "associate_join_data" THEN AssociateStages
    ELSE <<e>>

\* What the work of a stage itself meets: no error, a file or executable
\* that is not there, or another I/O or data error.
WorkOutcomes == {"ok", "FileNotFoundError", "error"}

\* The tables followed on disk; before the run each is missing or is left
\* over from an earlier run.
TrackedFiles ==
    {"filtered_highways", "nbi_geopackage", "all_join_csv",
     "intermediate_association", "association_with_intersections",
     "bridge_association_lengths", "final_bridges_csv"}

InitialFileStates == {"missing", "stale"}

StageResult(f, exc, log) == [files |-> f, exc |-> exc, log |-> log]

Elements(seq) == {seq[k] : k \in 1..Len(seq)}

\* The sections of config.yml the pipeline reads. yaml.safe_load gives a
\* mapping, or a value that is not one (None for a file that is empty or
\* holds comments only, a text, a list, a number); the same holds for each
\* section: a mapping, absent, or a value that is not a mapping.
Sections ==
    {"logging", "input_data_folder", "output_files", "output_data_folders"}

SectionKinds == {"mapping", "absent", "not a mapping"}

\* The folders create_directories asks for (line 60).
required_folders == <<"state_folder", "csv_files", "gpkg_files", "pbf_files">>

FolderKeys == {<<"output_data_folders", d>> : d \in Elements(required_folders)}

\* The keys a wrapper of the pipeline subscripts before it logs the entry
\* of the stage, in the order of the source (lines 81-83, 93-95, 109-126,
\* 140-151).
ReadsBeforeEntry(name) ==
    CASE name = "filter_osm_data" ->
            <<<<"input_data_folder", "state_latest_osm">>,
              <<"output_files", "filtered_osm_pbf">>,
              <<"output_files", "filtered_highways">>>>
      [] name = "filter_nbi_data" ->
            <<<<"input_data_folder", "nbi_bridge_data">>,
              <<"output_files", "duplicate_exclude_csv">>,
              <<"output_files", "nbi_geopackage">>>>
      [] name = "tag_data" ->
            <<<<"output_files", "nbi_geopackage">>,
              <<"output_files", "filtered_highways">>,
              <<"input_data_folder", "state_latest_osm">>,
              <<"output_files", "bridge_yes_join_csv">>,
              <<"output_files", "yes_filter_bridges">>,
              <<"output_files", "manmade_join_csv">>,
              <<"output_files", "manmade_filter_bridges">>,
              <<"output_files", "parallel_join_csv">>,
              <<"output_files", "parallel_filter_bridges">>,
              <<"output_files", "nearby_join_csv">>,
              <<"output_data_folders", "state_folder">>,
              <<"output_files", "culvert_join_csv">>,
              <<"output_files", "final_bridges">>,
              <<"input_data_folder", "nhd_streams_flowline">>,
              <<"output_files", "intersections_csv">>,
              <<"output_files", "osm_nhd_join_csv">>,
              <<"output_files", "nbi_10_join_csv">>,
              <<"output_files", "nbi_30_join_csv">>>>
      [] name = "process_all_join" ->
            <<<<"output_files", "all_join_dask">>,
              <<"output_files", "all_join_csv">>,
              <<"output_files", "intermediate_association">>,
              <<"output_files", "association_with_intersections">>,
              <<"output_files", "bridge_association_lengths">>,
              <<"output_files", "bridge_with_proj_points">>,
              <<"output_files", "bridge_match_percentage">>,
              <<"output_files", "final_bridges_csv">>>>
      [] OTHER -> <<>>

\* The keys subscripted after the entry is logged, in the arguments of the
\* call of the stage (lines 156-157, 166-169, 176-177, 190).
ReadsInCall(name) ==
    CASE name = "process_all_join" ->
            <<<<"output_files", "nbi_30_join_csv">>,
              <<"output_files", "nbi_10_join_csv">>>>
      [] name = "process_final_id" ->
            <<<<"output_files", "intersections_csv">>,
              <<"input_data_folder", "nbi_bridge_data">>>>
      [] name = "get_point_projections_on_ways" ->
            <<<<"output_files", "final_bridges">>,
              <<"output_files", "filtered_highways">>>>
      [] name = "exclude_nearby_bridges" ->
            <<<<"output_files", "nearby_join_csv">>>>
      [] OTHER -> <<>>

\* Every key the wrappers subscript.
KeysRead ==
    UNION {Elements(ReadsBeforeEntry(n)) \cup Elements(ReadsInCall(n)) :
                n \in Elements(MainStages)}

\* The configuration with every section a mapping that holds a path under
\* every key the pipeline reads, the path a text. missing: keys that are
\* not in their section; empty: folder keys whose value is falsy (null, the
\* empty text, zero, an empty list or mapping); mistyped: folder keys whose
\* value is true and is no path for os.stat (a float, a list or mapping
\* that holds something); overflowing: folder keys whose value is an
\* integer too large for a file descriptor.
WholeConfig ==
    [root |-> "mapping", sections |-> [s \in Sections |-> "mapping"],
     missing |-> {}, empty |-> {}, mistyped |-> {}, overflowing |-> {}]

\* The configurations given to the pipeline: the whole one, and the whole
\* one with one defect. A value of the wrong type under a key of
\* input_data_folder or output_files is handed to the stage unread and is
\* met by the work of the stage (WorkOutcomes). The value of log_file_path
\* is not looked at (see StartMain).
Configs ==
    {WholeConfig, [WholeConfig EXCEPT !.root = "not a mapping"]}
    \cup {[WholeConfig EXCEPT !.sections[s] = k] :
                s \in Sections, k \in SectionKinds \ {"mapping"}}
    \cup {[WholeConfig EXCEPT !.missing = {key}] : key \in KeysRead \cup FolderKeys}
    \cup {[WholeConfig EXCEPT !.empty = {key}] : key \in FolderKeys}
    \cup {[WholeConfig EXCEPT !.mistyped = {key}] : key \in FolderKeys}
    \cup {[WholeConfig EXCEPT !.overflowing = {key}] : key \in FolderKeys}

\* config[section][key]: TypeError when the configuration or the section is
\* not a mapping, KeyError when the section or the key is missing.
subscript(cfg, section, key) ==
    IF cfg.root = "not a mapping" THEN "TypeError"
    ELSE IF cfg.sections[section] = "absent" THEN "KeyError"
    ELSE IF cfg.sections[section] = "not a mapping" THEN "TypeError"
    ELSE IF <<section, key>> \in cfg.missing THEN "KeyError"
    ELSE "None"

\* config[section].get(key, default): AttributeError when the section is
\* not a mapping; a missing key gives the default.
subscript_get(cfg, section) ==
    IF cfg.root = "not a mapping" THEN "TypeError"
    ELSE IF cfg.sections[section] = "absent" THEN "KeyError"
    ELSE IF cfg.sections[section] = "not a mapping" THEN "AttributeError"
    ELSE "None"

\* The exception of the first of the reads that fails, in their order.
RECURSIVE FirstError(_, _)
FirstError(cfg, reads) ==
    IF reads = <<>> THEN "None"
    ELSE IF subscript(cfg, Head(reads)[1], Head(reads)[2]) # "None"
    THEN subscript(cfg, Head(reads)[1], Head(reads)[2])
    ELSE FirstError(cfg, Tail(reads))

\* The entry logged before the stage is called (line 222 for
\* create_directories, the wrappers for the others).
EntryLog(name) ==
    CASE name = "create_directories" -> "Creating directories."
      [] name = "filter_osm_data" -> "Filtering OSM ways data."
      [] name = "filter_nbi_data" -> "Filtering NBI bridge data."
      [] name = "tag_data" -> "Tagging NBI and OSM data."
      [] name = "process_all_join" -> "Joining association data together."
      [] name = "process_final_id" ->
            "Determining final OSM way ID for each NBI bridge."
      [] name = "get_point_projections_on_ways" ->
            "Getting NBI point projections on associated ways."
      [] name = "calculate_match_percentage" ->
            "Calculating fuzzy match for OSM road name."
      [] OTHER -> "Excluding nearby bridges."

\* What a folder path that is a text meets at lines 65-72: the directory
\* exists, makedirs creates it, or makedirs fails and the error is logged
\* and not raised. An integer that fits a file descriptor takes the first
\* branch when the descriptor is open and the last one when it is not
\* (makedirs takes no number).
FolderBranches ==
    {"Directory already exists: ", "Directory created: ",
     "Failed to create directory "}

\* The folders as create_directories finds them; no other stage looks, and
\* a folder without a usable path in the configuration is not looked at.
FolderInputs(name, cfg) ==
    IF name # "create_directories" \/ cfg.sections["output_data_folders"] # "mapping"
    THEN {<<>>}
    ELSE [{d \in Elements(required_folders) :
                <<"output_data_folders", d>>
                    \notin cfg.missing \cup cfg.empty \cup cfg.mistyped
                                \cup cfg.overflowing}
            -> FolderBranches]

\* The loop of lines 62-74 from the k-th required folder on. The path of a
\* folder stands in the log entries as the name of its key. A folder whose
\* key is missing or whose value is falsy is logged as not specified (line
\* 64); a value that is no path makes os.path.exists raise at line 65,
\* outside the try of lines 66-70, TypeError or for an integer out of range
\* OverflowError, and the loop ends there.
RECURSIVE FolderLoop(_, _, _)
FolderLoop(cfg, dirs, k) ==
    IF k > Len(required_folders) THEN [exc |-> "None", log |-> <<>>]
    ELSE LET folder == required_folders[k]
             key == <<"output_data_folders", folder>>
             rest == FolderLoop(cfg, dirs, k + 1)
             entry_of(text) == [exc |-> rest.exc, log |-> <<text>> \o rest.log]
         IN  IF cfg.sections["output_data_folders"] = "absent"
                    \/ key \in cfg.missing \cup cfg.empty
             THEN entry_of("Path for " \o folder
                                \o " not specified in configuration.")
             ELSE IF key \in cfg.mistyped
             THEN [exc |-> "TypeError", log |-> <<>>]
             ELSE IF key \in cfg.overflowing
             THEN [exc |-> "OverflowError", log |-> <<>>]
             ELSE entry_of(dirs[folder] \o folder)

\* create_directories: config.get("output_data_folders", {}) is the
\* section, {} when it is absent; a section that is not a mapping has no
\* get (a text, a list, a number, None) and line 63 raises AttributeError.
create_directories(dirs, f, cfg) ==
    IF cfg.sections["output_data_folders"] = "not a mapping"
    THEN StageResult(f, "AttributeError", <<EntryLog("create_directories")>>)
    ELSE StageResult(f, FolderLoop(cfg, dirs, 1).exc,
                     <<EntryLog("create_directories")>>
                        \o FolderLoop(cfg, dirs, 1).log)

\* The log entry of an output that has been written.
created(name) == "Output file: " \o name \o " has been created successfully!"

\* filter_osm_data -> filter_ways: the two commands raise on failure; after
\* them line 67 calls the logger object itself, which is not callable.
filter_osm_data(work, f) ==
    LET log == <<EntryLog("filter_osm_data")>>
    IN  IF work = "ok"
        THEN StageResult([f EXCEPT !["filtered_highways"] = "fresh"],
                         "TypeError", log)
        ELSE IF work = "FileNotFoundError"
        THEN StageResult(f, "FileNotFoundError", log)
        ELSE StageResult(f, "CalledProcessError", log)

\* filter_nbi_data -> create_nbi_geopackage: every error is re-raised;
\* convert_to_gpkg writes the GeoPackage and then calls the logger object.
filter_nbi_data(work, f) ==
    LET log == <<EntryLog("filter_nbi_data")>>
    IN  IF work = "ok"
        THEN StageResult([f EXCEPT !["nbi_geopackage"] = "fresh"],
                         "TypeError", log)
        ELSE IF work = "FileNotFoundError"
        THEN StageResult(f, "FileNotFoundError", log)
        ELSE StageResult(f, "Exception", log)

\* load_layers (lines 202-243): both layers are loaded, each one that is
\* not valid is logged, and the interpreter exits on the first one missing.
load_layers(f) ==
    LET failed(layer) == layer \o " layer failed to load. Check the file path and ensure the file exists."
        nbi == IF f["nbi_geopackage"] = "missing"
               THEN <<failed("nbi-points")>> ELSE <<>>
        osm == IF f["filtered_highways"] = "missing"
               THEN <<failed("filtered")>> ELSE <<>>
    IN  IF nbi # <<>>
        THEN [exc |-> "SystemExit",
              log |-> nbi \o osm \o
                <<"NBI points layer is critical and could not be loaded. Exiting.">>]
        ELSE IF osm # <<>>
        THEN [exc |-> "SystemExit",
              log |-> osm \o <<"OSM ways layer could not be loaded. Exiting.">>]
        ELSE [exc |-> "None", log |-> <<>>]

\* The outputs process_tagging logs, in the order of its steps (lines 302,
\* 342, 391, 518, 561, 580, 608, 631).
TagOutputs ==
    <<"yes_filter_bridges", "manmade_filter_bridges",
      "parallel_filter_bridges", "final_bridges", "intersections_csv",
      "osm_nhd_join_csv", "nbi_10_join_csv", "nbi_30_join_csv">>

\* tag_data -> process_tagging (lines 634-701): load_layers, then the steps
\* in order, each logging its outputs. A step that fails raises after the
\* entries of the outputs written before it (done of them);
\* process_buffer_join exits the interpreter when the rivers layer does not
\* load (lines 547-550), after the four outputs of the steps before it.
tag_data(work, done, f) ==
    LET log == <<EntryLog("tag_data")>>
        outputs(n) == [k \in 1..n |-> created(TagOutputs[k])]
    IN  IF load_layers(f).exc # "None"
        THEN StageResult(f, "SystemExit", log \o load_layers(f).log)
        ELSE IF work = "rivers not loaded"
        THEN StageResult(f, "SystemExit",
                         log \o outputs(4) \o <<"Rivers layer failed to load!">>)
        ELSE IF work = "ok"
        THEN StageResult(f, "None", log \o outputs(Len(TagOutputs)))
        ELSE IF work = "FileNotFoundError"
        THEN StageResult(f, "FileNotFoundError", log \o outputs(done))
        ELSE StageResult(f, "Exception", log \o outputs(done))

\* What the finally clause of process_all_join meets (lines 67-70): the
\* directory of the part files is removed or is not there, or
\* shutil.rmtree raises: the path names a regular file, or the directory
\* cannot be removed.
CleanupOutcomes == {"ok", "NotADirectoryError", "PermissionError"}

\* process_all_join: every exception of the try block is caught and logged
\* (lines 61-65); the joined CSV is written by the last statement of the
\* try block before its log entry. The finally clause then removes the
\* directory of the part files, and what shutil.rmtree raises leaves the
\* function.
process_all_join(work, cleanup, f) ==
    LET log == <<EntryLog("process_all_join")>>
        exc == IF cleanup = "ok" THEN "None" ELSE cleanup
    IN  IF work = "ok"
        THEN StageResult([f EXCEPT !["all_join_csv"] = "fresh"], exc,
                         log \o <<created("all_join_csv")>>)
        ELSE StageResult(f, exc, log \o <<"An error occurred">>)

\* The tables process_final_id writes, in the order of its three steps
\* (lines 267, 307, 378).
FinalIdOutputs ==
    <<"intermediate_association", "association_with_intersections",
      "bridge_association_lengths">>

\* What the read of the bridge data in add_bridge_details meets when it
\* fails (lines 334-349): the file is missing, a column is missing, the
\* file is empty, malformed, not text, or not readable.
BridgeDataOutcomes ==
    {"bridge data not found", "bridge data error", "bridge data empty",
     "bridge data malformed", "bridge data not text",
     "bridge data not readable"}

\* What the work of process_final_id meets, with the number of writes it
\* has attempted by then. merge_join_data_with_intersections raises
\* FileNotFoundError for a missing file, ValueError for an empty one,
\* KeyError for a missing column and RuntimeError for anything else (lines
\* 210-217); haversine raises ValueError when no row has an intersection,
\* before the first write; determine_final_osm_id raises ValueError (lines
\* 162-166) after the first write; the read of the bridge data in
\* add_bridge_details (lines 334-349) is in no try and raises after the
\* second what pandas raises: the file is missing, empty, malformed, not
\* text or not readable, or a column is missing.
FinalIdWrites(work) ==
    CASE work \in {"FileNotFoundError", "ValueError", "KeyError", "error",
                   "no intersection"} -> 0
      [] work = "resolver error" -> 1
      [] work \in BridgeDataOutcomes -> 2
      [] OTHER -> 3

FinalIdException(work) ==
    CASE work \in {"FileNotFoundError", "bridge data not found"} ->
            "FileNotFoundError"
      [] work \in {"ValueError", "no intersection", "resolver error"} ->
            "ValueError"
      [] work \in {"KeyError", "bridge data error"} -> "KeyError"
      [] work = "error" -> "RuntimeError"
      [] work = "bridge data empty" -> "EmptyDataError"
      [] work = "bridge data malformed" -> "ParserError"
      [] work = "bridge data not text" -> "UnicodeDecodeError"
      [] work = "bridge data not readable" -> "PermissionError"
      [] OTHER -> "None"

\* process_final_id (lines 387-421). Each write has its own try: one that
\* fails with IOError is logged and not raised, and the steps after it go
\* on. written[k] tells whether the k-th write attempted went through. The
\* tables written derive from the joined CSV on disk; a table whose write
\* failed stays as it was.
process_final_id(work, written, f) ==
    LET log == <<EntryLog("process_final_id")>>
        wrote(k) == k <= Len(written) /\ written[k]
        entries == [k \in 1..Len(written) |->
                        IF written[k]
                        THEN FinalIdOutputs[k] \o " file has been created successfully!"
                        ELSE "Failed to write " \o FinalIdOutputs[k]]
        disk == [t \in DOMAIN f |->
                    IF \E k \in 1..Len(FinalIdOutputs) :
                            t = FinalIdOutputs[k] /\ wrote(k)
                    THEN f["all_join_csv"] ELSE f[t]]
    IN  IF f["all_join_csv"] = "missing"
        THEN StageResult(f, "FileNotFoundError", log)
        ELSE StageResult(disk, FinalIdException(work), log \o entries)

\* get_point_projections_on_ways.run is called with four arguments and
\* takes five (lines 175-180 of the pipeline, 14-20 of the stage).
get_point_projections_on_ways(work, f) ==
    StageResult(f, "TypeError", <<EntryLog("get_point_projections_on_ways")>>)

\* calculate_match_percentage.run is called with two arguments and takes
\* three (lines 183-185 of the pipeline, 110 of the stage).
calculate_match_percentage(work, f) ==
    StageResult(f, "TypeError", <<EntryLog("calculate_match_percentage")>>)

\* exclude_nearby_bridges.run: the loads raise; the filtered CSV is written
\* and then line 63 calls the logger object.
exclude_nearby_bridges(work, f) ==
    LET log == <<EntryLog("exclude_nearby_bridges")>>
    IN  IF work = "ok"
        THEN StageResult([f EXCEPT !["final_bridges_csv"] = "fresh"],
                         "TypeError", log)
        ELSE IF work = "FileNotFoundError"
        THEN StageResult(f, "FileNotFoundError", log)
        ELSE StageResult(f, "Exception", log)

\* What the work of each stage can meet; create_directories has no outcome
\* but the branches of its folders. tag_data gets no further than
\* load_layers when a layer is missing, process_final_id no further than
\* its first read when the joined CSV is. A state_folder that is no text
\* cannot be joined to the paths of the culvert step (line 441), so the
\* work of tag_data fails there or before. The part-file path of
\* process_all_join can name a regular file only when its work has failed
\* (os.makedirs of line 35 raises on one).
OutcomesOf(name, f, cfg) ==
    CASE name = "create_directories" -> {"ok"}
      [] name = "tag_data" /\ load_layers(f).exc # "None" -> {"layer not loaded"}
      [] name = "tag_data" /\ <<"output_data_folders", "state_folder">>
                                    \in cfg.mistyped \cup cfg.overflowing ->
            {"FileNotFoundError", "error"}
      [] name = "tag_data" -> WorkOutcomes \cup {"rivers not loaded"}
      [] name = "process_final_id" /\ f["all_join_csv"] = "missing" ->
            {"FileNotFoundError"}
      [] name = "process_final_id" ->
            WorkOutcomes \cup BridgeDataOutcomes
                \cup {"ValueError", "KeyError", "no intersection",
                      "resolver error", "write failed"}
      [] OTHER -> WorkOutcomes

\* How far the work got: for a failing step of tag_data the number of
\* outputs logged before it, for process_final_id the outcome of each write
\* attempted, for process_all_join what its finally clause meets; nothing
\* for the other stages.
ProgressOf(name, work, cfg) ==
    CASE name = "tag_data" /\ work \in {"FileNotFoundError", "error"} ->
            IF <<"output_data_folders", "state_folder">>
                    \in cfg.mistyped \cup cfg.overflowing
            THEN 0..3 ELSE 0..(Len(TagOutputs) - 1)
      [] name = "process_all_join" /\ work = "ok" ->
            CleanupOutcomes \ {"NotADirectoryError"}
      [] name = "process_all_join" -> CleanupOutcomes
      [] name = "process_final_id" /\ work = "ok" -> {<<TRUE, TRUE, TRUE>>}
      [] name = "process_final_id" /\ work = "write failed" ->
            [1..3 -> BOOLEAN] \ {<<TRUE, TRUE, TRUE>>}
      [] name = "process_final_id" -> [1..FinalIdWrites(work) -> BOOLEAN]
      [] OTHER -> {0}

RunOf(name, work, progress, dirs, f, cfg) ==
    CASE name = "create_directories" -> create_directories(dirs, f, cfg)
      [] name = "filter_osm_data" -> filter_osm_data(work, f)
      [] name = "filter_nbi_data" -> filter_nbi_data(work, f)
      [] name = "tag_data" -> tag_data(work, progress, f)
      [] name = "process_all_join" -> process_all_join(work, progress, f)
      [] name = "process_final_id" -> process_final_id(work, progress, f)
      [] name = "get_point_projections_on_ways" ->
            get_point_projections_on_ways(work, f)
      [] name = "calculate_match_percentage" ->
            calculate_match_percentage(work, f)
      [] OTHER -> exclude_nearby_bridges(work, f)

\* The except clauses of main (lines 236-244): FileNotFoundError, YAMLError
\* and KeyError are logged and main returns; any other Exception is logged
\* and raised again; SystemExit is not an Exception. The wrappers have no
\* handler.
Handled(e, exc) ==
    IF e # "main"
    THEN [status |-> IF exc = "SystemExit" THEN "exited" ELSE "raised",
          log |-> <<>>]
    ELSE IF exc = "FileNotFoundError"
    THEN [status |-> "returned", log |-> <<"File not found">>]
    ELSE IF exc = "KeyError"
    THEN [status |-> "returned",
          log |-> <<"Missing key in configuration or data">>]
    ELSE IF exc = "SystemExit" THEN [status |-> "exited", log |-> <<>>]
    ELSE [status |-> "raised", log |-> <<"An unexpected error occurred">>]

completed == "Association process completed."

\* load_config (lines 22-48): the file is read and parsed, or the error is
\* raised again.
ConfigOutcomes == {"loaded", "load failed"}

\* Lines 200-219 of main: load_config fails and main exits; or
\* config["logging"].get fails (TypeError on a configuration that is not a
\* mapping, KeyError on a missing section, AttributeError on a section
\* that is not a mapping) and the handlers of lines 236-244 take it; or the
\* stages begin. logging.basicConfig of lines 215-219 does nothing and
\* opens no file: the root logger has a handler since the script imported
\* calculate_match_percentage, whose line 7 calls basicConfig.
StartMain ==
    /\ run_status = "running"
    /\ entry = "main"
    /\ stage = 0
    /\ \E load \in ConfigOutcomes :
        IF load = "load failed"
        THEN /\ run_status' = "exited"
             /\ UNCHANGED <<stage, plog>>
        ELSE LET exc == subscript_get(config, "logging")
                 h == Handled(entry, exc)
             IN  IF exc # "None"
                 THEN /\ run_status' = h.status
                      /\ plog' = plog \o h.log
                      /\ UNCHANGED stage
                 ELSE /\ stage' = 1
                      /\ UNCHANGED <<run_status, plog>>
    /\ UNCHANGED <<entry, ran, files, config>>

\* The next stage call of the function entered, with what follows it: the
\* handler when the wrapper's reads of the configuration or the call
\* raised, the closing log entry of main after the last call. A read that
\* fails leaves the stage uncalled.
RunStage ==
    /\ run_status = "running"
    /\ stage >= 1
    /\ stage <= Len(StagesOf(entry))
    /\ LET name == StagesOf(entry)[stage]
           before_entry == FirstError(config, ReadsBeforeEntry(name))
           in_call == FirstError(config, ReadsInCall(name))
       IN  IF before_entry # "None"
           THEN /\ plog' = plog \o Handled(entry, before_entry).log
                /\ run_status' = Handled(entry, before_entry).status
                /\ UNCHANGED <<ran, files, stage>>
           ELSE IF in_call # "None"
           THEN /\ plog' = plog \o <<EntryLog(name)>>
                                \o Handled(entry, in_call).log
                /\ run_status' = Handled(entry, in_call).status
                /\ UNCHANGED <<ran, files, stage>>
           ELSE
            \E work \in OutcomesOf(name, files, config),
               dirs \in FolderInputs(name, config) :
            \E progress \in ProgressOf(name, work, config) :
            LET res == RunOf(name, work, progress, dirs, files, config)
                last == stage = Len(StagesOf(entry))
                h == Handled(entry, res.exc)
            IN  /\ ran' = Append(ran, [stage |-> name, work |-> work,
                                        exc |-> res.exc])
                /\ files' = res.files
                /\ stage' = stage + 1
                /\ IF res.exc # "None"
                   THEN /\ plog' = plog \o res.log \o h.log
                        /\ run_status' = h.status
                   ELSE IF last
                   THEN /\ plog' = plog \o res.log \o
                                (IF entry = "main" THEN <<completed>> ELSE <<>>)
                        /\ run_status' =
                                IF entry = "main" THEN "completed" ELSE "returned"
                   ELSE /\ plog' = plog \o res.log
                        /\ run_status' = "running"
    /\ UNCHANGED <<entry, config>>

\* The sections a function entered reads.
SectionsOf(e) ==
    IF e = "main" THEN Sections
    ELSE {key[1] : key \in
            UNION {Elements(ReadsBeforeEntry(n)) \cup Elements(ReadsInCall(n)) :
                        n \in Elements(StagesOf(e))}}

\* A call of function e of the script: the configuration is one of Configs
\* whose defect, if any, lies where e reads.
Called(e) ==
    /\ entry = e
    /\ config \in {c \in Configs :
            /\ \A s \in Sections \ SectionsOf(e) : c.sections[s] = "mapping"
            /\ \A key \in c.missing \cup c.empty \cup c.mistyped
                                \cup c.overflowing :
                    key[1] \in SectionsOf(e)}
    /\ stage = IF e = "main" THEN 0 ELSE 1
    /\ ran = <<>>
    /\ plog = <<>>
    /\ files \in [TrackedFiles -> InitialFileStates]
    /\ run_status = "running"

\* main is called (line 249) and has its configuration to load.
LInit == Called("main")

\* One of the wrappers is called with a configuration, as main calls it at
\* lines 226-233.
WrapperInit == \E e \in Wrappers : Called(e)

LIdle ==
    /\ entry = "idle"
    /\ stage = 0
    /\ ran = <<>>
    /\ plog = <<>>
    /\ files = <<>>
    /\ run_status = "idle"
    /\ config = <<>>

\* ----------------------------------------------------------- Coordinates
\* extract_coordinates of determine_final_osm_id.py on one cell of the WKT
\* column. The cell is null or a text put together from a head, a body and
\* a tail.
WKTHeads == {<<>>, <<"P", "O", "I", "N", "T", " ", "(">>,
             <<"P", "O", "I", "N", "T", "(">>}

WKTBodies ==
    {<<>>, <<"1", " ", "2">>, <<"3", " ", "1">>, <<"2", " ", "0">>, <<"1">>,
     <<"1", " ", "2", " ", "3">>, <<"a", " ", "2">>, <<"1", " ", " ", "2">>}

WKTTails == {<<>>, <<")">>, <<")", ")">>}

WKTCells ==
    {NoWKT} \cup {h \o b \o t : h \in WKTHeads, b \in WKTBodies, t \in WKTTails}

\* The call of extract_coordinates on the cell (line 233, inside apply).
ExtractCoordinates ==
    /\ cpc = "call"
    /\ coordinates' = extract_coordinates(wkt_cell)
    /\ cpc' = "done"
    /\ UNCHANGED wkt_cell

CInit ==
    /\ wkt_cell \in WKTCells
    /\ coordinates = <<>>
    /\ cpc = "call"

CIdle ==
    /\ wkt_cell = <<>>
    /\ coordinates = <<>>
    /\ cpc = "idle"

\* ----------------------------------------------------------- Ledger calls
\* update_stats called on the ledger table that create_bridge_statistics
\* sets up (lines 170-173), with any description and count.
MaxUpdates == 2

\* The descriptions of the ledger and one that is not in it.
CallDescriptions ==
    {Description[i] : i \in 1..Len(Description)} \cup {"Not editing: Other"}

CallCounts == {0, 1, 2}

NoCall == <<>>

\* One call of update_stats; a KeyError ends the caller.
UpdateStats ==
    /\ ucalls < MaxUpdates
    /\ ~ledger.error
    /\ \E description \in CallDescriptions, count \in CallCounts :
        /\ call' = [description |-> description, count |-> count]
        /\ ledger' = update_stats(ledger, description, count)
    /\ before' = ledger
    /\ ucalls' = ucalls + 1

UInit ==
    /\ ledger = Ledger([i \in 1..Len(Description) |-> 0], <<>>)
    /\ before = Ledger([i \in 1..Len(Description) |-> 0], <<>>)
    /\ call = NoCall
    /\ ucalls = 0

UIdle ==
    /\ ledger = <<>>
    /\ before = <<>>
    /\ call = NoCall
    /\ ucalls = 0

\* -------------------------------------------------------------- Extractor
\* iterative_intersection_process of osm_extractor.py. Geometry is laid out
\* on one axis: an OSM road is a point of the axis, a bridge link is a point
\* whose buffer of size s is the interval of radius s around it, and a
\* bridge location is a point.
MaxLinks == 2

\* osm_df: the roads, in row order.
osm_roads == <<0, 50>>

\* Positions of bridge links; a link's bridge location lies one unit beyond
\* the link, or the bridge has no row in bridge_location_df.
LinkPositions == {8, 20, 28}

\* Values of the parameters; the first buffer is the default of line 148.
MaxIterationsValues == {2, 4}
MaxBufferValues == {20, 30}
BufferIncrements == {5, 10}
default_buffer_size == 15

\* project_point_to_line is called with max_snap_distance (line 102).
max_snap_distance == 10

LinkRow(bridge_id, x, located) ==
    [bridge_id |-> bridge_id, geometry |-> x,
     geometry_bridge |-> IF located THEN x + 1 ELSE NA]

\* gpd.overlay(osm_df, bridge_buffer, how="intersection"): one row for every
\* road and every buffered link that meet, roads first.
RECURSIVE overlay(_, _, _)
overlay(roads, buffered, size) ==
    IF roads = <<>> THEN <<>>
    ELSE LET r == Head(roads)
             hit == SelectSeq(buffered, LAMBDA b : Abs(r - b.geometry) <= size)
         IN  [i \in 1..Len(hit) |->
                 [bridge_id |-> hit[i].bridge_id, geometry_osm |-> r,
                  geometry_bridge |-> hit[i].geometry_bridge]]
             \o overlay(Tail(roads), buffered, size)

\* project_point_to_line: the nearest point of the road when it lies within
\* max_distance, else the point itself.
project_point_to_line(point, line, max_distance) ==
    IF Abs(point - line) <= max_distance THEN line ELSE point

\* src/ pins no pandas version. On a table without rows the apply of line
\* 130 returns a frame, and the comparison of line 137 raises ValueError
\* with pandas 2.x and goes through with pandas 1.x.
PandasBuilds == {"1.x", "2.x"}

\* process_and_merge_osm_data: the overlay, joined with the bridge
\* locations, reduced to the rows nearest to their bridge location; and
\* the snapped points that differ from the bridge location.
process_and_merge_osm_data(roads, buffered, size, build) ==
    LET joined == SelectSeq(overlay(roads, buffered, size),
                            LAMBDA row : row.geometry_bridge # NA)
        distance(row) == Abs(row.geometry_osm - row.geometry_bridge)
        min_distance(row) ==
            LET D == {distance(joined[k]) :
                        k \in {j \in 1..Len(joined) :
                            joined[j].geometry_bridge = row.geometry_bridge}}
            IN  CHOOSE m \in D : \A d \in D : m <= d
        final_df == SelectSeq(joined,
                        LAMBDA row : min_distance(row) = distance(row))
        point_geom == [k \in 1..Len(final_df) |->
                          project_point_to_line(final_df[k].geometry_bridge,
                                                final_df[k].geometry_osm,
                                                max_snap_distance)]
        final_point_geom == [k \in 1..Len(final_df) |->
                                IF point_geom[k] # final_df[k].geometry_bridge
                                THEN point_geom[k] ELSE NA]
    IN  IF final_df = <<>> /\ build = "2.x"
        THEN [exc |-> "ValueError", final_df |-> <<>>, point_geom |-> <<>>]
        ELSE [exc |-> "None", final_df |-> final_df,
              point_geom |-> SelectSeq(final_point_geom, LAMBDA p : p # NA)]

\* processed_df["bridge_id"].unique()
processed_ids(processed_df) ==
    {processed_df[k].bridge_id : k \in 1..Len(processed_df)}

\* Mutant: the matched bridges stay in the working table.
remaining_KeepMatched(df, ids) == df

\* bridge_df[~bridge_df["bridge_id"].isin(processed_ids)]
remaining(df, ids) == SelectSeq(df, LAMBDA b : b.bridge_id \notin ids)

\* The loop condition of lines 175-179.
LoopCondition ==
    /\ link_df # <<>>
    /\ buffer_size <= iter_params.max_buffer
    /\ iteration_count < iter_params.max_iterations

\* The bridge link table holds one more bridge.
AddLink ==
    /\ ipc = "load"
    /\ Len(link_df) < MaxLinks
    /\ \E x \in LinkPositions, located \in BOOLEAN :
        link_df' = Append(link_df, LinkRow(Len(link_df) + 1, x, located))
    /\ UNCHANGED <<iter_params, buffer_size, iteration_count, final_df_list,
                   point_geom_list, iterations, ipc>>

\* bridge_location_df: the location rows of the bridges that have one.
bridge_location_df(df) == SelectSeq(df, LAMBDA b : b.geometry_bridge # NA)

\* Entry of iterative_intersection_process: an empty bridge_df, osm_df or
\* bridge_location_df raises ValueError.
StartIterations ==
    /\ ipc = "load"
    /\ ipc' = IF link_df = <<>> \/ osm_roads = <<>>
                    \/ bridge_location_df(link_df) = <<>>
              THEN "failed" ELSE "loop"
    /\ UNCHANGED <<link_df, iter_params, buffer_size, iteration_count,
                   final_df_list, point_geom_list, iterations>>

\* One iteration of the while loop; an exception of
\* process_and_merge_osm_data leaves the function.
Iterate ==
    /\ ipc = "loop"
    /\ LoopCondition
    /\ LET res == process_and_merge_osm_data(osm_roads, link_df, buffer_size,
                                             iter_params.pandas)
           processed_df == res.final_df
       IN  /\ iterations' = Append(iterations,
                    [buffer |-> buffer_size,
                     working |-> processed_ids(link_df),
                     matched |-> processed_ids(processed_df)])
           /\ IF res.exc # "None"
              THEN /\ ipc' = "failed"
                   /\ UNCHANGED <<final_df_list, point_geom_list, link_df,
                                  buffer_size, iteration_count>>
              ELSE /\ IF processed_df # <<>>
                      THEN /\ final_df_list' = Append(final_df_list, processed_df)
                           /\ point_geom_list' = point_geom_list \o res.point_geom
                           /\ link_df' = remaining(link_df,
                                                   processed_ids(processed_df))
                      ELSE UNCHANGED <<final_df_list, point_geom_list, link_df>>
                   /\ buffer_size' = buffer_size + iter_params.buffer_increment
                   /\ iteration_count' = iteration_count + 1
                   /\ ipc' = ipc
    /\ UNCHANGED iter_params

\* After the loop: pd.concat raises ValueError on an empty list.
FinishIterations ==
    /\ ipc = "loop"
    /\ ~LoopCondition
    /\ ipc' = IF final_df_list = <<>> THEN "failed" ELSE "done"
    /\ UNCHANGED <<link_df, iter_params, buffer_size, iteration_count,
                   final_df_list, point_geom_list, iterations>>

IInit ==
    /\ link_df = <<>>
    /\ iter_params \in [max_iterations : MaxIterationsValues,
                        max_buffer : MaxBufferValues,
                        buffer_increment : BufferIncrements,
                        pandas : PandasBuilds]
    /\ buffer_size = default_buffer_size
    /\ iteration_count = 0
    /\ final_df_list = <<>>
    /\ point_geom_list = <<>>
    /\ iterations = <<>>
    /\ ipc = "load"

IIdle ==
    /\ link_df = <<>>
    /\ iter_params = <<>>
    /\ buffer_size = 0
    /\ iteration_count = 0
    /\ final_df_list = <<>>
    /\ point_geom_list = <<>>
    /\ iterations = <<>>
    /\ ipc = "idle"

\* ----------------------------------------------------------------- Walker
\* extend_along_connected_way of obtain_bridge_split_info.py. A line is its
\* first and last coordinate (junctions of the network), its length and the
\* geometry it runs over; every way has a geometry of its own.
MaxWays == 3

Junctions == {1, 2, 3}
WayLengths == {3}
RemainingDistances == {2, 5, 8}

WayId(i) == 100 + i
Line(i, a, b, length) == [coords |-> <<a, b>>, length |-> length, geom |-> i, inverted |-> FALSE]

\* LineString(line.coords[::-1])
inverted_line(line) ==
    [line EXCEPT !.coords = <<line.coords[2], line.coords[1]>>,
                 !.inverted = ~line.inverted]

\* line.equals(other): the same set of points, whatever the direction.
line_equals(line, other) == line.geom = other.geom

\* line.interpolate(d): the point of the geometry at distance d from the
\* first coordinate of the line.
line_interpolate(line, d) ==
    [geom |-> line.geom, at |-> IF line.inverted THEN line.length - d ELSE d]

NoPoint == [geom |-> NA, at |-> NA]

\* Point(current_line.coords[start_or_end])
connection_point(line, rev) == IF rev THEN line.coords[1] ELSE line.coords[2]

\* The for loop of lines 121-131: the ways that are not the current line,
\* are not visited and touch the connection point, turned to start there.
RECURSIVE possible_next_lines(_, _, _, _)
possible_next_lines(lines, line, rev, seen) ==
    IF lines = <<>> THEN <<>>
    ELSE LET l == Head(lines)[1]
             way_id == Head(lines)[2]
             cp == connection_point(line, rev)
             rest == possible_next_lines(Tail(lines), line, rev, seen)
         IN  IF line_equals(l, line) THEN rest
             ELSE IF way_id \in {seen[k] : k \in 1..Len(seen)} THEN rest
             ELSE IF cp = l.coords[1] THEN <<<<l, way_id>>>> \o rest
             ELSE IF cp = l.coords[2] THEN <<<<inverted_line(l), way_id>>>> \o rest
             ELSE rest

\* current_line_way_id: the id of the last way equal to the current line.
current_line_way_id(lines, line) ==
    LET same == SelectSeq(lines, LAMBDA e : line_equals(e[1], line))
    IN  IF same = <<>> THEN NA ELSE same[Len(same)][2]

\* The list of ways holds one more way.
AddWay ==
    /\ wpc = "load"
    /\ Len(all_lines_with_ids) < MaxWays
    /\ \E a \in Junctions, b \in Junctions, length \in WayLengths :
        LET i == Len(all_lines_with_ids) + 1
        IN  all_lines_with_ids' =
                Append(all_lines_with_ids, <<Line(i, a, b, length), WayId(i)>>)
    /\ UNCHANGED <<current_line, remaining_distance, reverse, visited,
                   walk_path, calls, possible, walk_result, wpc>>

\* calculate_points_on_way leaves the line at its end (lines 94-96) or at
\* its start (lines 101-103, reverse=True) with a distance to walk.
StartWalk ==
    /\ wpc = "load"
    /\ \E i \in 1..Len(all_lines_with_ids), d \in RemainingDistances,
          rev \in BOOLEAN :
        /\ current_line' = all_lines_with_ids[i][1]
        /\ remaining_distance' = d
        /\ reverse' = rev
    /\ wpc' = "walk"
    /\ UNCHANGED <<all_lines_with_ids, visited, walk_path, calls, possible,
                   walk_result>>

\* One call of extend_along_connected_way; the recursive call of lines
\* 143-149 returns what the inner call returns, so the walk is a loop.
Extend ==
    /\ wpc = "walk"
    /\ LET next == possible_next_lines(all_lines_with_ids, current_line,
                                       reverse, visited)
           here == current_line_way_id(all_lines_with_ids, current_line)
       IN  /\ calls' = calls + 1
           /\ possible' = Len(next)
           /\ IF Len(next) > 1
              THEN /\ walk_result' = [point |-> NoPoint, way_id |-> here]
                   /\ wpc' = "returned"
                   /\ UNCHANGED <<current_line, remaining_distance, visited,
                                  walk_path>>
              ELSE IF Len(next) = 1
              THEN LET next_line == next[1][1]
                       way_id == next[1][2]
                       entered == [way_id |-> way_id,
                                   entered_at |-> next_line.coords[1],
                                   far_end |-> next_line.coords[2]]
                   IN  /\ walk_path' = Append(walk_path, entered)
                       /\ IF remaining_distance <= next_line.length
                          THEN /\ walk_result' =
                                    [point |-> line_interpolate(next_line,
                                                    remaining_distance),
                                     way_id |-> way_id]
                               /\ wpc' = "returned"
                               /\ UNCHANGED <<current_line,
                                              remaining_distance, visited>>
                          ELSE /\ visited' = Append(visited, way_id)
                               /\ current_line' = next_line
                               /\ remaining_distance' =
                                    remaining_distance - next_line.length
                               /\ UNCHANGED <<walk_result, wpc>>
              ELSE /\ walk_result' = [point |-> NoPoint, way_id |-> here]
                   /\ wpc' = "returned"
                   /\ UNCHANGED <<current_line, remaining_distance, visited,
                                  walk_path>>
    /\ UNCHANGED <<all_lines_with_ids, reverse>>

WInit ==
    /\ all_lines_with_ids = <<>>
    /\ current_line = <<>>
    /\ remaining_distance = 0
    /\ reverse = FALSE
    /\ visited = <<>>
    /\ walk_path = <<>>
    /\ calls = 0
    /\ possible = 0
    /\ walk_result = <<>>
    /\ wpc = "load"

WIdle ==
    /\ all_lines_with_ids = <<>>
    /\ current_line = <<>>
    /\ remaining_distance = 0
    /\ reverse = FALSE
    /\ visited = <<>>
    /\ walk_path = <<>>
    /\ calls = 0
    /\ possible = 0
    /\ walk_result = <<>>
    /\ wpc = "idle"

\* -------------------------------------------------------- specifications
\* The stages run as separate programs on their own files.
ResolverInit == RInit /\ DIdle /\ MIdle /\ PIdle /\ SIdle /\ LIdle /\ CIdle /\ UIdle /\ IIdle /\ WIdle
ResolverNext ==
    \/ AddJoinRow /\ UNCHANGED <<dvars, mvars, pvars, svars, lvars, cvars, uvars, ivars, wvars>>
    \/ ProcessFinalId /\ UNCHANGED <<dvars, mvars, pvars, svars, lvars, cvars, uvars, ivars, wvars>>
SpecResolver == ResolverInit /\ [][ResolverNext]_vars

DedupInit == RIdle /\ DInit /\ MIdle /\ PIdle /\ SIdle /\ LIdle /\ CIdle /\ UIdle /\ IIdle /\ WIdle
DedupNext ==
    \/ AddPair /\ UNCHANGED <<rvars, mvars, pvars, svars, lvars, cvars, uvars, ivars, wvars>>
    \/ StartFilter /\ UNCHANGED <<rvars, mvars, pvars, svars, lvars, cvars, uvars, ivars, wvars>>
    \/ ProcessPair /\ UNCHANGED <<rvars, mvars, pvars, svars, lvars, cvars, uvars, ivars, wvars>>
    \/ WriteFiltered /\ UNCHANGED <<rvars, mvars, pvars, svars, lvars, cvars, uvars, ivars, wvars>>
SpecDedup == DedupInit /\ [][DedupNext]_vars

MergeInit == RIdle /\ DIdle /\ MInit /\ PIdle /\ SIdle /\ LIdle /\ CIdle /\ UIdle /\ IIdle /\ WIdle
MergeNext ==
    \/ AddMergeBridge /\ UNCHANGED <<rvars, dvars, pvars, svars, lvars, cvars, uvars, ivars, wvars>>
    \/ CreateBridgeStatistics /\ UNCHANGED <<rvars, dvars, pvars, svars, lvars, cvars, uvars, ivars, wvars>>
    \/ MergeMain /\ UNCHANGED <<rvars, dvars, pvars, svars, lvars, cvars, uvars, ivars, wvars>>
SpecMerge == MergeInit /\ [][MergeNext]_vars

\* The projection stage of the hydrography pipeline, followed by the merge.
ProjectionInit == RIdle /\ DIdle /\ MWait /\ PInit /\ SIdle /\ LIdle /\ CIdle /\ UIdle /\ IIdle /\ WIdle
ProjectionNext ==
    \/ AddAssociation /\ UNCHANGED <<rvars, dvars, mvars, svars, lvars, cvars, uvars, ivars, wvars>>
    \/ StartProjection /\ UNCHANGED <<rvars, dvars, mvars, svars, lvars, cvars, uvars, ivars, wvars>>
    \/ ProjectRow /\ UNCHANGED <<rvars, dvars, mvars, svars, lvars, cvars, uvars, ivars, wvars>>
    \/ WriteProjected /\ UNCHANGED <<rvars, dvars, mvars, svars, lvars, cvars, uvars, ivars, wvars>>
    \/ HandOver /\ UNCHANGED <<rvars, dvars, pvars, svars, lvars, cvars, uvars, ivars, wvars>>
    \/ CreateBridgeStatistics /\ UNCHANGED <<rvars, dvars, pvars, svars, lvars, cvars, uvars, ivars, wvars>>
    \/ MergeMain /\ UNCHANGED <<rvars, dvars, pvars, svars, lvars, cvars, uvars, ivars, wvars>>
SpecProjection == ProjectionInit /\ [][ProjectionNext]_vars

ScorerInit == RIdle /\ DIdle /\ MIdle /\ PIdle /\ SInit /\ LIdle /\ CIdle /\ UIdle /\ IIdle /\ WIdle
ScorerNext ==
    \/ AddScoreRow /\ UNCHANGED <<rvars, dvars, mvars, pvars, lvars, cvars, uvars, ivars, wvars>>
    \/ RunMatchPercentage /\ UNCHANGED <<rvars, dvars, mvars, pvars, lvars, cvars, uvars, ivars, wvars>>
SpecScorer == ScorerInit /\ [][ScorerNext]_vars

\* The pipeline driver: the script is run and main is entered.
PipelineInit == RIdle /\ DIdle /\ MIdle /\ PIdle /\ SIdle /\ LInit /\ CIdle /\ UIdle /\ IIdle /\ WIdle
PipelineNext ==
    \/ StartMain /\ UNCHANGED <<rvars, dvars, mvars, pvars, svars, cvars, uvars, ivars, wvars>>
    \/ RunStage /\ UNCHANGED <<rvars, dvars, mvars, pvars, svars, cvars, uvars, ivars, wvars>>
SpecPipeline == PipelineInit /\ [][PipelineNext]_vars

\* The wrappers of the pipeline script, each called with a configuration.
WrappersInit == RIdle /\ DIdle /\ MIdle /\ PIdle /\ SIdle /\ WrapperInit /\ CIdle /\ UIdle /\ IIdle /\ WIdle
WrappersNext ==
    RunStage /\ UNCHANGED <<rvars, dvars, mvars, pvars, svars, cvars, uvars, ivars, wvars>>
SpecWrappers == WrappersInit /\ [][WrappersNext]_vars

\* extract_coordinates on one cell.
CoordinatesInit == RIdle /\ DIdle /\ MIdle /\ PIdle /\ SIdle /\ LIdle /\ CInit /\ UIdle /\ IIdle /\ WIdle
CoordinatesNext ==
    \/ ExtractCoordinates /\ UNCHANGED <<rvars, dvars, mvars, pvars, svars, lvars, uvars, ivars, wvars>>
SpecCoordinates == CoordinatesInit /\ [][CoordinatesNext]_vars

\* update_stats on its own.
LedgerCallsInit == RIdle /\ DIdle /\ MIdle /\ PIdle /\ SIdle /\ LIdle /\ CIdle /\ UInit /\ IIdle /\ WIdle
LedgerCallsNext ==
    \/ UpdateStats /\ UNCHANGED <<rvars, dvars, mvars, pvars, svars, lvars, cvars, ivars, wvars>>
SpecLedgerCalls == LedgerCallsInit /\ [][LedgerCallsNext]_vars

\* iterative_intersection_process of the mile-point approach.
ExtractorInit == RIdle /\ DIdle /\ MIdle /\ PIdle /\ SIdle /\ LIdle /\ CIdle /\ UIdle /\ IInit /\ WIdle
ExtractorNext ==
    \/ AddLink /\ UNCHANGED <<rvars, dvars, mvars, pvars, svars, lvars, cvars, uvars, wvars>>
    \/ StartIterations /\ UNCHANGED <<rvars, dvars, mvars, pvars, svars, lvars, cvars, uvars, wvars>>
    \/ Iterate /\ UNCHANGED <<rvars, dvars, mvars, pvars, svars, lvars, cvars, uvars, wvars>>
    \/ FinishIterations /\ UNCHANGED <<rvars, dvars, mvars, pvars, svars, lvars, cvars, uvars, wvars>>
SpecExtractor == ExtractorInit /\ [][ExtractorNext]_vars

\* extend_along_connected_way of the JOSM split approach.
WalkerInit == RIdle /\ DIdle /\ MIdle /\ PIdle /\ SIdle /\ LIdle /\ CIdle /\ UIdle /\ IIdle /\ WInit
WalkerNext ==
    \/ AddWay /\ UNCHANGED <<rvars, dvars, mvars, pvars, svars, lvars, cvars, uvars, ivars>>
    \/ StartWalk /\ UNCHANGED <<rvars, dvars, mvars, pvars, svars, lvars, cvars, uvars, ivars>>
    \/ Extend /\ UNCHANGED <<rvars, dvars, mvars, pvars, svars, lvars, cvars, uvars, ivars>>
SpecWalker == WalkerInit /\ [][WalkerNext]_vars

\* ===================================================== Resolver properties
\* Positions of the resolved table that hold the rows of bridge sn.
RowsOfBridge(sn) == {k \in 1..Len(inter) : inter[k].row.sn = sn}

MatchRows(sn) == {k \in RowsOfBridge(sn) : inter[k].row.Is_Stream_Identical}

MinRows(sn) == {k \in RowsOfBridge(sn) : inter[k].row.Is_Min_Dist}

First(S) == CHOOSE k \in S : \A j \in S : k <= j

ResolvedBridges == {inter[k].row.sn : k \in 1..Len(inter)}

ComboCountOf(sn) == inter[First(RowsOfBridge(sn))].row.combo_count

FinalOf(sn) == inter[First(RowsOfBridge(sn))].final

\* The six final fields are those of row k.
TakenFromRow(f, k) ==
    /\ f.final_osm_id = inter[k].row.osm_id
    /\ f.osm_name = inter[k].row.name
    /\ f.final_stream_id = inter[k].row.px
    /\ f.stream_name = inter[k].row.gnis_name
    /\ f.final_long = inter[k].row.Long_intersection
    /\ f.final_lat = inter[k].row.Lat_intersection

IsNullAssociation(f) ==
    /\ f.final_osm_id = NA
    /\ f.osm_name = NA
    /\ f.final_stream_id = NA
    /\ f.stream_name = NA
    /\ f.final_long = NA
    /\ f.final_lat = NA

AnchorIsPointOf(f, k) ==
    /\ f.final_long = inter[k].row.Long_intersection
    /\ f.final_lat = inter[k].row.Lat_intersection

\* C1: in a group with combo-count > 1 and exactly one stream-matching row,
\* all final fields (segment id and name, stream id and name, anchor point)
\* are those of that row, whatever the distances of the other rows.
C1_UniqueStreamMatchWins ==
    rpc = "done" =>
        \A sn \in ResolvedBridges :
            (ComboCountOf(sn) > 1 /\ Cardinality(MatchRows(sn)) = 1)
                => \E k \in MatchRows(sn) : TakenFromRow(FinalOf(sn), k)

\* C1 witness: the one stream-matching row is farther away than a row of
\* another segment that is the minimum-distance row, and still wins.
C1_Witness ==
    /\ rpc = "done"
    /\ \E sn \in ResolvedBridges :
        /\ ComboCountOf(sn) > 1
        /\ Cardinality(MatchRows(sn)) = 1
        /\ \E k \in MatchRows(sn), j \in MinRows(sn) :
            /\ ~inter[k].row.Is_Min_Dist
            /\ inter[j].row.osm_id # inter[k].row.osm_id
            /\ inter[j].row.Haversine_dist < inter[k].row.Haversine_dist
            /\ FinalOf(sn).final_osm_id = inter[k].row.osm_id

\* C2: in a group with combo-count > 1 and two or more stream-matching rows,
\* a returned association is taken from a stream-matching row that is flagged
\* minimum-distance; a row that is not stream-matching never wins.
C2_WinnerAmongStreamMatches ==
    rpc = "done" =>
        \A sn \in ResolvedBridges :
            (/\ ComboCountOf(sn) > 1
             /\ Cardinality(MatchRows(sn)) >= 2
             /\ ~IsNullAssociation(FinalOf(sn)))
                => \E k \in MatchRows(sn) \cap MinRows(sn) :
                        TakenFromRow(FinalOf(sn), k)

\* C3: in a group with combo-count > 1 and two or more stream-matching rows
\* none of which is flagged minimum-distance, the null association is
\* returned, whatever the flags of the other rows.
C3_AmbiguousStreamMatchesGiveNull ==
    rpc = "done" =>
        \A sn \in ResolvedBridges :
            (/\ ComboCountOf(sn) > 1
             /\ Cardinality(MatchRows(sn)) >= 2
             /\ MatchRows(sn) \cap MinRows(sn) = {})
                => IsNullAssociation(FinalOf(sn))

\* C4: in a group with combo-count > 1 and no stream-matching row, exactly
\* one minimum-distance row supplies all final fields, and no such row or
\* more than one (a distance tie) gives the null association.
C4_NoStreamMatchMinDistOrNull ==
    rpc = "done" =>
        \A sn \in ResolvedBridges :
            (ComboCountOf(sn) > 1 /\ MatchRows(sn) = {})
                => IF Cardinality(MinRows(sn)) = 1
                   THEN \E k \in MinRows(sn) : TakenFromRow(FinalOf(sn), k)
                   ELSE IsNullAssociation(FinalOf(sn))

\* The row whose point the combo-count == 1 precedence names.
ExpectedAnchorRow(sn) ==
    LET M == MatchRows(sn)
        D == MinRows(sn)
    IN  IF Cardinality(M) = 1 THEN First(M)
        ELSE IF Cardinality(M) > 1
             THEN IF M \cap D # {} THEN First(M \cap D) ELSE First(M)
             ELSE IF D # {} THEN First(D) ELSE First(RowsOfBridge(sn))

\* C5: in a group with combo-count == 1 the final segment id is the group's
\* single segment id, never null, and the anchor is chosen by precedence:
\* the unique stream-matching row; among several stream-matching rows the
\* first flagged minimum-distance, else the first of them; with none, the
\* first minimum-distance row, else the first row.
C5_SingleSegmentAnchorPrecedence ==
    rpc = "done" =>
        \A sn \in ResolvedBridges :
            ComboCountOf(sn) = 1 =>
                /\ FinalOf(sn).final_osm_id # NA
                /\ \A k \in RowsOfBridge(sn) :
                        inter[k].row.osm_id = FinalOf(sn).final_osm_id
                /\ AnchorIsPointOf(FinalOf(sn), ExpectedAnchorRow(sn))

\* C5 witness: rows {A, farther, not minimum} then {A, nearer, minimum},
\* no stream match: the anchor is the second row's point.
C5_Witness ==
    /\ rpc = "done"
    /\ \E sn \in ResolvedBridges :
        /\ ComboCountOf(sn) = 1
        /\ MatchRows(sn) = {}
        /\ Cardinality(RowsOfBridge(sn)) >= 2
        /\ \E k \in MinRows(sn) :
            /\ k # First(RowsOfBridge(sn))
            /\ ~inter[First(RowsOfBridge(sn))].row.Is_Min_Dist
            /\ inter[First(RowsOfBridge(sn))].row.Haversine_dist # NA
            /\ FinalOf(sn).final_long = inter[k].row.Long_intersection
            /\ FinalOf(sn).final_long
                    # inter[First(RowsOfBridge(sn))].row.Long_intersection

\* C6: a non-null final_osm_id of a bridge is the osm_id of a candidate row
\* of that same bridge, and every row of the bridge carries the same finals.
C6_FinalIdIsSupported ==
    rpc = "done" =>
        \A i \in 1..Len(inter) :
            /\ inter[i].final = FinalOf(inter[i].row.sn)
            /\ inter[i].final.final_osm_id # NA =>
                  \E k \in 1..Len(join) :
                      /\ join[k].sn = inter[i].row.sn
                      /\ join[k].osm_id = inter[i].final.final_osm_id

\* C6 witness: two bridges with different candidate segments, both resolved.
C6_Witness ==
    /\ rpc = "done"
    /\ \E a \in ResolvedBridges, b \in ResolvedBridges :
        /\ a # b
        /\ FinalOf(a).final_osm_id # NA
        /\ FinalOf(b).final_osm_id # NA
        /\ FinalOf(a).final_osm_id # FinalOf(b).final_osm_id
        /\ \A k \in RowsOfBridge(b) :
                inter[k].row.osm_id # FinalOf(a).final_osm_id

\* ================================================= Deduplicator properties
\* The pairs the loop iterates: the rows of the nearby join with sn1 # sn2.
NonSelfPairs == SelectSeq(join_df, LAMBDA row : row[1] # row[2])

NonSelfEndpoints ==
    {NonSelfPairs[i][1] : i \in 1..Len(NonSelfPairs)}
        \cup {NonSelfPairs[i][2] : i \in 1..Len(NonSelfPairs)}

HasScore(x) == \E i \in 1..Len(bridge_df) : bridge_df[i].sn = x

ScoreOf(x) ==
    bridge_df[CHOOSE i \in 1..Len(bridge_df) : bridge_df[i].sn = x].osm_similarity

\* Every reordering of the pair list.
PairListPermutations ==
    {[i \in 1..Len(join_df) |-> join_df[f[i]]] :
        f \in Permutations(1..Len(join_df))}

\* C7: the removal set at the end of filter_duplicates_and_output is the
\* same for every permutation of the pair list.
C7_RemovalSetOrderIndependent ==
    dpc = "done" =>
        \A perm \in PairListPermutations :
            RemovalSetOf(bridge_df, perm) = remove_ids

\* The pair the next iteration handles.
CurrentPair == NonSelfPairs[di + 1]

IterationStep == dpc = "loop" /\ di' = di + 1 /\ di < Len(NonSelfPairs)

C8_Step ==
    /\ remove_ids' \subseteq NonSelfEndpoints
    /\ IterationStep =>
        LET sn1 == CurrentPair[1]
            sn2 == CurrentPair[2]
        IN  IF sn1 \in remove_ids \/ sn2 \in remove_ids
            THEN remove_ids' = remove_ids
            ELSE (HasScore(sn1) /\ HasScore(sn2)) =>
                    LET loser == IF ScoreOf(sn1) < ScoreOf(sn2) THEN sn1 ELSE sn2
                    IN  /\ remove_ids' = remove_ids \cup {loser}
                        /\ Cardinality(remove_ids') = Cardinality(remove_ids) + 1

\* C8: an iteration on a pair with both bridges in the similarity table and
\* neither in the removal set adds exactly one bridge, the strictly lower
\* scoring one, or the second-listed one on equal scores; a pair with an
\* endpoint already removed adds nothing, and a self-pair adds nothing (only
\* endpoints of non-self pairs are ever removed).
C8_PairRemovesLowerOrSecond == [][C8_Step]_vars

\* C8 witness: a self-pair, then a tie that removed its second bridge, then
\* a pair skipped because that bridge was already removed.
C8_Witness ==
    /\ dpc = "done"
    /\ Len(join_df) = 3
    /\ join_df[1][1] = join_df[1][2]
    /\ HasScore(join_df[1][1])
    /\ Len(NonSelfPairs) = 2
    /\ HasScore(NonSelfPairs[1][1])
    /\ HasScore(NonSelfPairs[1][2])
    /\ ScoreOf(NonSelfPairs[1][1]) = ScoreOf(NonSelfPairs[1][2])
    /\ NonSelfPairs[2][1] = NonSelfPairs[1][2]
    /\ HasScore(NonSelfPairs[2][2])
    /\ remove_ids = {NonSelfPairs[1][2]}

MissingBridge(row) == ~HasScore(row[1]) \/ ~HasScore(row[2])

C9_StepAsClaimed ==
    /\ (IterationStep /\ MissingBridge(CurrentPair)) =>
            /\ dlog' = Append(dlog, CurrentPair)
            /\ remove_ids' = remove_ids
            /\ dpc' = "loop"
    /\ dpc' = "done" => di' = Len(NonSelfPairs)

\* C9 as stated: an iteration on a pair that names a bridge without a row
\* in the similarity table logs the pair, leaves the removal set unchanged
\* and the loop goes on until every pair has been iterated.
C9_MissingBridgeLoggedAndSkipped == [][C9_StepAsClaimed]_vars

C9_StepAmended ==
    /\ (/\ IterationStep
        /\ MissingBridge(CurrentPair)
        /\ CurrentPair[1] \notin remove_ids
        /\ CurrentPair[2] \notin remove_ids) =>
            /\ dlog' = Append(dlog, CurrentPair)
            /\ remove_ids' = remove_ids
            /\ dpc' = "loop"
    /\ (IterationStep /\ MissingBridge(CurrentPair)) =>
            /\ remove_ids' = remove_ids
            /\ dpc' = "loop"
            /\ \/ dlog' = dlog
               \/ dlog' = Append(dlog, CurrentPair)
    /\ dpc' = "done" => di' = Len(NonSelfPairs)

\* C9 amended: a pair that names a bridge without a row in the similarity
\* table never changes the removal set and never stops the loop, and it is
\* logged when neither of its bridges is already in the removal set (a pair
\* with a bridge already removed is skipped before the lookup, unlogged).
C9_MissingBridgeSkippedLoggedIfUnresolved == [][C9_StepAmended]_vars

\* C9 witness: the first pair named a missing bridge and was logged, and a
\* later pair was still compared and removed a bridge.
C9_Witness ==
    /\ dpc = "done"
    /\ Len(NonSelfPairs) >= 2
    /\ MissingBridge(NonSelfPairs[1])
    /\ dlog = <<NonSelfPairs[1]>>
    /\ remove_ids # {}

\* C25: once the loop of filter_duplicates_and_output has handled a non-self
\* pair whose two bridges both have a row in the similarity table, at least
\* one of the two is in the removal set, so after the whole pair list no
\* such pair has both bridges in the output; and only bridges of non-self
\* pairs are ever removed.
C25_NoNearbyPairSurvives ==
    /\ dpc \in {"loop", "done"} =>
        /\ \A i \in 1..Len(NonSelfPairs) :
            LET sn1 == NonSelfPairs[i][1]
                sn2 == NonSelfPairs[i][2]
            IN  (i <= di /\ HasScore(sn1) /\ HasScore(sn2)) =>
                    sn1 \in remove_ids \/ sn2 \in remove_ids
        /\ remove_ids \subseteq NonSelfEndpoints
    /\ dpc = "done" =>
        /\ di = Len(NonSelfPairs)
        /\ \A i \in 1..Len(NonSelfPairs) :
            ~(NonSelfPairs[i][1] \in out_ids /\ NonSelfPairs[i][2] \in out_ids)
        /\ \A x \in DedupIds :
            (HasScore(x) /\ x \notin NonSelfEndpoints) => x \in out_ids

\* C25 witness: the output is written; bridges 1 and 2 are nearby and both
\* scored, one of them is removed and the other is in the output; bridge 3
\* is scored, is listed only in a self-pair and is in the output.
C25_Witness ==
    /\ dpc = "done"
    /\ join_df = <<<<1, 2>>, <<3, 3>>>>
    /\ HasScore(1) /\ HasScore(2) /\ HasScore(3)
    /\ remove_ids = {2}
    /\ out_ids = {1, 3}

\* ==================================================== Reconciler properties
MileRowsFor(sn) == {k \in 1..Len(mile) : mile[k].bridge_id = sn}

\* Both methods name the same segment and the hydrography score clears the
\* automated threshold.
AgreedAndConfident(i) ==
    /\ hydro[i].final_osm_id # NA
    /\ hydro[i].osm_similarity >= similarity_threshold
    /\ \E k \in MileRowsFor(hydro[i].sn) :
            mile[k].osm_id = hydro[i].final_osm_id

\* The merged output holds bridge i of the hydrography table with its
\* segment id and the mile-point method's point.
InOutputWithMilePoint(i) ==
    \E j \in 1..Len(merged), k \in MileRowsFor(hydro[i].sn) :
        /\ merged[j].sn = hydro[i].sn
        /\ merged[j].osm_id = hydro[i].final_osm_id
        /\ mile[k].geometry # NoGeometry
        /\ merged[j].projected_long_mile = mile[k].geometry[1]
        /\ merged[j].projected_lat_mile = mile[k].geometry[2]

\* C10 as stated: every bridge on which both methods agree and whose score
\* clears the threshold is in the merged output with that segment id and
\* the mile-point method's point.
C10_AgreedBridgeInOutput ==
    mpc = "done" =>
        \A i \in 1..Len(hydro) : AgreedAndConfident(i) => InOutputWithMilePoint(i)

\* C10 amended: every such bridge that the mile-point method snapped (its
\* row has a point geometry) is in the merged output with that segment id
\* and the mile-point method's point, and no output row of it carries the
\* hydrography point; an unsnapped bridge is not in the output.
C10_AgreedSnappedBridgeInOutput ==
    mpc = "done" =>
        \A i \in 1..Len(hydro) :
            AgreedAndConfident(i) =>
                IF \E k \in MileRowsFor(hydro[i].sn) : mile[k].geometry # NoGeometry
                THEN /\ InOutputWithMilePoint(i)
                     /\ \A j \in 1..Len(merged) :
                            merged[j].sn = hydro[i].sn =>
                                <<merged[j].projected_long_mile,
                                  merged[j].projected_lat_mile>>
                                    # <<hydro[i].final_long, hydro[i].final_lat>>
                ELSE \A j \in 1..Len(merged) : merged[j].sn # hydro[i].sn

\* C10 witness: an agreed, snapped, confident bridge is in the output with
\* the mile-point coordinates, next to a bridge that was dropped.
C10_Witness ==
    /\ mpc = "done"
    /\ Len(hydro) = 2
    /\ Len(merged) = 1
    /\ \E i \in 1..Len(hydro) :
        /\ AgreedAndConfident(i)
        /\ InOutputWithMilePoint(i)
        /\ merged[1].projected_long_mile = MilePoint[1]

\* Only the hydrography method has an association for bridge i: the
\* mile-point table holds no row of it.
OnlyHydroAssociated(i) ==
    /\ hydro[i].final_osm_id # NA
    /\ MileRowsFor(hydro[i].sn) = {}

\* C11 as stated: every bridge that only the hydrography method associated
\* and whose score is at least the automated threshold is in the merged
\* output with the hydrography segment id and the hydrography method's raw
\* intersection point as coordinates.
C11_HydroOnlyBridgeAccepted ==
    mpc = "done" =>
        \A i \in 1..Len(hydro) :
            (OnlyHydroAssociated(i)
                /\ hydro[i].osm_similarity >= similarity_threshold) =>
                \E j \in 1..Len(merged) :
                    /\ merged[j].sn = hydro[i].sn
                    /\ merged[j].osm_id = hydro[i].final_osm_id
                    /\ merged[j].projected_long_mile = hydro[i].final_long
                    /\ merged[j].projected_lat_mile = hydro[i].final_lat

\* The two methods name different ways for bridge i; k is its mile-point row.
Disagree(i, k) ==
    /\ hydro[i].final_osm_id # NA
    /\ k \in MileRowsFor(hydro[i].sn)
    /\ mile[k].osm_id # NA
    /\ mile[k].osm_id # hydro[i].final_osm_id

\* The merged output holds bridge sn with way osm.
KeptWithWay(sn, osm) ==
    \E j \in 1..Len(merged) : merged[j].sn = sn /\ merged[j].osm_id = osm

\* C12 as stated: a bridge on which the methods disagree is kept with the
\* way of the method whose score is strictly higher when that score clears
\* the threshold (the hydrography score is osm_similarity, the mile-point
\* score the neighbouring-roads similarity); on equal scores the mile-point
\* way and point are used.
C12_DisagreementHigherScoreWins ==
    mpc = "done" =>
        \A i \in 1..Len(hydro) : \A k \in 1..Len(mile) :
            Disagree(i, k) =>
                LET a == hydro[i].osm_similarity
                    b == road_sim[i]
                IN  /\ (a > b /\ a >= similarity_threshold) =>
                        KeptWithWay(hydro[i].sn, hydro[i].final_osm_id)
                    /\ (b > a /\ b >= similarity_threshold) =>
                        KeptWithWay(hydro[i].sn, mile[k].osm_id)
                    /\ (a = b /\ a >= similarity_threshold) =>
                        \E j \in 1..Len(merged) :
                            /\ merged[j].sn = hydro[i].sn
                            /\ merged[j].osm_id = mile[k].osm_id
                            /\ mile[k].geometry # NoGeometry
                            /\ merged[j].projected_long_mile = mile[k].geometry[1]

\* ==================================================== Classifier properties
\* The merged table of the inputs, before the agreement filter.
MergeTable == merge_df(hydro, mile, road_sim)

\* Rows of the merged table that reach the classification of lines 249-252.
ClassifiedRows == agreed_rows(MergeTable)

\* C13 as stated: every bridge with an association whose maximum similarity
\* (combined_max_similarity) is at least the automated threshold is given
\* the disposition 'Automated', with one candidate way or with several: a
\* row is written for the bridge and its osm_edits value is 'Automated'.
\* The bridges are the rows of the merged table before the filters of
\* lines 239-242; the disposition is the osm_edits value of the written row.
C13_HighScoreIsAutomated ==
    mpc = "done" =>
        \A i \in 1..Len(MergeTable) :
            (MergeTable[i].osm_id_hydro # NA
                /\ MergeTable[i].combined_max_similarity >= similarity_threshold) =>
                \E j \in 1..Len(merged) :
                    /\ merged[j].sn = MergeTable[i].sn
                    /\ merged[j].osm_edits = "Automated"

\* Review floors of the deployments.
ReviewFloors == {60, 70}

\* C14 as stated: a written bridge whose maximum similarity lies between
\* the review floor and the automated threshold is 'Maproulette', one below
\* the review floor is excluded as low-confidence, and neither is
\* 'Automated', whatever its combo-count.
C14_LowScoreIsReviewedOrExcluded ==
    mpc = "done" =>
        \A floor \in ReviewFloors : \A j \in 1..Len(merged) :
            LET sim == merged[j].combined_max_similarity
            IN  /\ (floor <= sim /\ sim < similarity_threshold) =>
                    merged[j].osm_edits = "Maproulette"
                /\ sim < floor => merged[j].osm_edits = "Excluded"
                /\ sim < similarity_threshold => merged[j].osm_edits # "Automated"

\* Values of the automated threshold of line 167.
Thresholds == {60, 70, 76}

\* C15: for every classified bridge and thresholds t1 < t2, a bridge that is
\* not 'Automated' with t1 is not 'Automated' with t2; the written osm_edits
\* is the classification with the threshold of line 167.
C15_RaisingThresholdNeverAutomates ==
    mpc = "done" =>
        /\ Len(merged) = Len(ClassifiedRows)
        /\ \A j \in 1..Len(merged) :
            /\ merged[j].osm_edits =
                    osm_edits_for(ClassifiedRows[j], similarity_threshold)
            /\ \A t1 \in Thresholds : \A t2 \in Thresholds :
                (t1 < t2 /\ osm_edits_for(ClassifiedRows[j], t1) # "Automated") =>
                    osm_edits_for(ClassifiedRows[j], t2) # "Automated"

\* C15 witness: a written bridge with several candidate ways is 'Automated'
\* with the threshold of line 167 and 'Maproulette' with a higher one.
C15_Witness ==
    /\ mpc = "done"
    /\ \E j \in 1..Len(merged) : \E t2 \in Thresholds :
        /\ t2 > similarity_threshold
        /\ merged[j].osm_edits = "Automated"
        /\ osm_edits_for(ClassifiedRows[j], t2) = "Maproulette"

\* ======================================================== Ledger properties
Entry(description) == stats[IndexOf(description)]

\* The "Not editing" rows of the ledger.
NotEditing ==
    {i \in 1..Len(Description) :
        Description[i] # Description[1]
            /\ Description[i] # "Editing: Automated bridge edits"}

RECURSIVE SumOver(_)
SumOver(S) ==
    IF S = {} THEN 0
    ELSE LET i == CHOOSE x \in S : TRUE IN stats[i] + SumOver(S \ {i})

\* C16: after create_bridge_statistics and the ledger updates of the merge,
\* the first entry of the ledger (total bridges) equals the sum of all
\* 'Not editing' entries plus the 'Editing: Automated bridge edits' entry.
C16_LedgerTotalIsSumOfEntries ==
    mpc = "done" =>
        /\ Len(stats) = Len(Description)
        /\ stats[1] = funnel.total_bridges
        /\ stats[1] =
            SumOver(NotEditing) + Entry("Editing: Automated bridge edits")

\* C16 witness: a finished ledger with three bridges, one excluded upstream,
\* one sent to MapRoulette and one edited automatically.
C16_Witness ==
    /\ mpc = "done"
    /\ stats[1] = 3
    /\ Entry("Not editing: overlapping bridges - bridges with duplicate coordinates") = 1
    /\ maproulette_edits(MergeTable) = 1
    /\ Entry("Editing: Automated bridge edits") = 1
    /\ Len(merged) = 2

\* Rows of the merged output with the given osm_edits.
OutputRowsWith(edit) ==
    Cardinality({j \in 1..Len(merged) : merged[j].osm_edits = edit})

\* C26: after the ledger updates of the merge, the 'Editing: Automated
\* bridge edits' entry is the number of output rows with osm_edits
\* 'Automated' and the MapRoulette entry is the number of output rows with
\* osm_edits 'Maproulette', for a ledger whose first eight entries come from
\* create_bridge_statistics and a merge table with one row per bridge of
\* the final-bridges table.
C26_LedgerCountsMatchOutput ==
    mpc = "done" =>
        /\ Len(MergeTable) = funnel.final_bridges_csv
        /\ Entry("Editing: Automated bridge edits") = OutputRowsWith("Automated")
        /\ Entry(Description[11]) = OutputRowsWith("Maproulette")

\* C26 witness: a finished run whose output holds one automated and one
\* MapRoulette row, counted as such in the ledger.
C26_Witness ==
    /\ mpc = "done"
    /\ Len(hydro) = 2
    /\ OutputRowsWith("Automated") = 1
    /\ OutputRowsWith("Maproulette") = 1
    /\ Entry("Editing: Automated bridge edits") = 1
    /\ Entry(Description[11]) = 1

\* The stage sizes reconcile: no stage output holds more rows than the
\* stage before it left.
Reconciles(f) ==
    /\ f.total_bridges - f.overlapping_or_duplicate_coordinates
            - f.non_posted_culverts >= f.yes_filter_bridges
    /\ f.yes_filter_bridges >= f.manmade_filter_bridges
    /\ f.manmade_filter_bridges >= f.parallel_filter_bridges
    /\ f.parallel_filter_bridges >= f.final_bridges
    /\ f.final_bridges >= f.final_bridges_csv

\* C17 as stated: when the stage sizes do not reconcile, building the
\* ledger ends in an error and no ledger is written.
C17_MismatchIsFatal ==
    stats # <<>> => Reconciles(funnel)

\* ==================================================== Projection properties
\* The bridge point and the way of an association row can both be found.
PointsOf(row) ==
    {i \in 1..Len(bridge_points_gdf) : bridge_points_gdf[i].sn = row.sn}

WaysOf(row) ==
    {i \in 1..Len(osm_ways_gdf) :
        osm_ways_gdf[i].osm_id = StrInt(row.final_osm_id)}

ProjectionAvailable(row) ==
    /\ row.final_osm_id # NA
    /\ PointsOf(row) # {}
    /\ WaysOf(row) # {}

\* q is the point of the segment nearest to p.
IsNearestOnWay(q, p, line) ==
    LET OnWay(x) == line.a[1] <= x /\ x <= line.b[1]
        Dist2(x) == (x - p[1]) * (x - p[1])
    IN  /\ q[2] = line.a[2]
        /\ OnWay(q[1])
        /\ \A x \in line.a[1]..line.b[1] : Dist2(q[1]) <= Dist2(x)

\* c hundredths of a metre is feet / 3.281 rounded to two decimals.
IsRoundedMetres(c, feet) == 2 * Abs(c * 3281 - feet * 100000) <= 3281

\* C19: no exception escapes the loop; every association row iterated so far
\* has exactly one output row, in order, and the finished run has one per
\* association row; the projected coordinates are the empty string when
\* final_osm_id is null or the bridge point or the way is not found, and
\* the projection of the bridge point onto the way otherwise; bridge_length
\* is the length in feet divided by 3.281 and rounded to 2 decimals.
C19_OneRowPerAssociation ==
    /\ ppc # "failed"
    /\ Len(projected_data) = pidx
    /\ ppc = "done" => pidx = Len(associations_df)
    /\ \A k \in 1..Len(projected_data) :
        LET row == associations_df[k]
            out == projected_data[k]
        IN  /\ out.sn = row.sn
            /\ out.final_osm_id = row.final_osm_id
            /\ IsRoundedMetres(out.bridge_length, row.bridge_length)
            /\ IF ProjectionAvailable(row)
               THEN \E i \in PointsOf(row), w \in WaysOf(row) :
                        IsNearestOnWay(<<out.projected_long, out.projected_lat>>,
                                       bridge_points_gdf[i].geometry,
                                       osm_ways_gdf[w].geometry)
               ELSE /\ out.projected_long = EmptyString
                    /\ out.projected_lat = EmptyString

\* C19 witness: a finished run of two rows; the way of the first is not in
\* the layer, the second bridge is projected onto the end of its way.
C19_Witness ==
    /\ ppc = "done"
    /\ Len(projected_data) = 2
    /\ associations_df[1].final_osm_id # NA
    /\ projected_data[1].projected_long = EmptyString
    /\ projected_data[2].projected_long = 4
    /\ projected_data[2].projected_lat = 5
    /\ projected_data[2].bridge_length = 1006

\* C18 as stated: a bridge whose projection is unavailable is never
\* 'Automated' in the merged output, and its unprojected location is never
\* written as its coordinates.
C18_UnprojectedNeverAutomated ==
    mpc = "done" =>
        \A k \in 1..Len(projected_data) : \A j \in 1..Len(merged) :
            (projected_data[k].projected_long = EmptyString
                /\ merged[j].sn = projected_data[k].sn) =>
                /\ merged[j].osm_edits # "Automated"
                /\ <<merged[j].projected_long_mile, merged[j].projected_lat_mile>>
                        # BridgePoint(merged[j].sn).geometry

\* ======================================================== Scorer properties
\* The alias columns handed to calculate_similarity_vectorized by run.
AliasColumns == Tail(osm_cols_for_road_names)

\* Score of alias column c of row r against the bridge name in column f.
AliasScore(r, c, f) == vectorized_fuzz(score_df[r][c], score_df[r][f])

\* Positions in the alias list of the columns present in row r.
PresentAliases(r) ==
    {i \in 1..Len(AliasColumns) : AliasColumns[i] \in DOMAIN score_df[r]}

\* v is the maximum of the scores of row r against bridge name f.
IsMaxAliasScore(v, r, f) ==
    /\ \E i \in PresentAliases(r) : AliasScore(r, AliasColumns[i], f) = v
    /\ \A i \in PresentAliases(r) : AliasScore(r, AliasColumns[i], f) <= v

\* col is an alias column of row r whose score against f is v.
IsAliasWithScore(col, v, r, f) ==
    \E i \in PresentAliases(r) :
        AliasColumns[i] = col /\ AliasScore(r, col, f) = v

\* C20 as stated: for every row the returned score is the maximum of the
\* scores against every alias column present, and the recorded column is
\* an alias column whose score equals that maximum.
C20_SourceColumnProducedMax ==
    spc = "done" =>
        LET res1 == calculate_similarity_vectorized(score_df, AliasColumns,
                                                    fixed_column_1)
            res2 == calculate_similarity_vectorized(score_df, AliasColumns,
                                                    fixed_column_2)
            AsStated(x, r, f) ==
                /\ IsMaxAliasScore(x.score, r, f)
                /\ IsAliasWithScore(x.col, x.score, r, f)
        IN  \A r \in 1..Len(score_df) :
                /\ AsStated(res1[r], r, fixed_column_1)
                /\ AsStated(res2[r], r, fixed_column_2)

\* C20 amended: the returned score is the maximum of the scores against
\* every alias column present; when it is positive the recorded column is
\* the first alias column whose score equals it, and when it is 0 the
\* recorded column is the empty string. The osm_similarity written by run
\* is the greater of the results for the two bridge names, with the column
\* of the first name unless the second is strictly greater.
C20_SourceColumnIsFirstMaxOrEmpty ==
    spc = "done" =>
        LET res1 == calculate_similarity_vectorized(score_df, AliasColumns,
                                                    fixed_column_1)
            res2 == calculate_similarity_vectorized(score_df, AliasColumns,
                                                    fixed_column_2)
            FirstWithMax(x, r, f) ==
                /\ IsAliasWithScore(x.col, x.score, r, f)
                /\ \A i \in PresentAliases(r) :
                    AliasScore(r, AliasColumns[i], f) = x.score =>
                        \E k \in 1..i : AliasColumns[k] = x.col
            AsAmended(x, r, f) ==
                /\ IsMaxAliasScore(x.score, r, f)
                /\ IF x.score > 0 THEN FirstWithMax(x, r, f) ELSE x.col = ""
        IN  /\ Len(match_df) = Len(score_df)
            /\ \A r \in 1..Len(score_df) :
                /\ AsAmended(res1[r], r, fixed_column_1)
                /\ AsAmended(res2[r], r, fixed_column_2)
                /\ match_df[r].osm_similarity =
                        IF res2[r].score > res1[r].score
                        THEN res2[r].score ELSE res1[r].score
                /\ match_df[r].osm_similarity_col =
                        IF res2[r].score > res1[r].score
                        THEN res2[r].col ELSE res1[r].col

\* C20 witness: a written table whose first row has two alias columns with
\* the same positive maximum, the first of them recorded, and whose second
\* row scores 0 on every alias and records the empty string.
C20_Witness ==
    /\ spc = "done"
    /\ Len(match_df) = 2
    /\ AliasScore(1, "name", fixed_column_1) = 50
    /\ AliasScore(1, "ref", fixed_column_1) = 50
    /\ match_df[1].osm_similarity = 50
    /\ match_df[1].osm_similarity_col = "name"
    /\ match_df[2].osm_similarity = 0
    /\ match_df[2].osm_similarity_col = ""

\* A null cell or the empty string.
IsNullOrEmpty(s) == IsNull(s) \/ s = <<>>

\* C21: for every pair of an alias name and a bridge name of which either
\* side is null or empty, the similarity score is 0, from the batched
\* vectorized_fuzz and from the scalar calculate_osm_similarity alike; and a
\* row all of whose alias names are null has the written score 0.
C21_NullOrEmptyScoresZero ==
    spc = "done" =>
        \A r \in 1..Len(score_df) :
            /\ \A i \in PresentAliases(r) :
                \A f \in {fixed_column_1, fixed_column_2} :
                    LET name == score_df[r][AliasColumns[i]]
                        target == score_df[r][f]
                    IN  (IsNullOrEmpty(name) \/ IsNullOrEmpty(target)) =>
                            /\ vectorized_fuzz(name, target) = 0
                            /\ calculate_osm_similarity(name, target) = 0
            /\ (\A i \in PresentAliases(r) :
                    IsNull(score_df[r][AliasColumns[i]])) =>
                        match_df[r].osm_similarity = 0

\* C22: for every row of the table, rows with null names included, the score
\* of calculate_similarity_vectorized against either bridge name equals the
\* maximum of the scalar scores of the row's alias names against that name.
C22_BatchedEqualsScalar ==
    spc = "done" =>
        LET res1 == calculate_similarity_vectorized(score_df, AliasColumns,
                                                    fixed_column_1)
            res2 == calculate_similarity_vectorized(score_df, AliasColumns,
                                                    fixed_column_2)
        IN  \A r \in 1..Len(score_df) :
                /\ res1[r].score =
                        scalar_similarity(score_df[r], AliasColumns,
                                          fixed_column_1)
                /\ res2[r].score =
                        scalar_similarity(score_df[r], AliasColumns,
                                          fixed_column_2)

\* ====================================================== Pipeline properties
\* The stages of the pipeline proper (create_directories prepares folders).
PipelineStages == Tail(MainStages)

\* The own work of the i-th stage called has failed: it met an error, one
\* it raised or one it caught and logged.
WorkFailed(i) == ran[i].stage \in {PipelineStages[k] : k \in 1..Len(PipelineStages)}
                    /\ ran[i].work # "ok"

\* The run has ended on an error: the exception left the function entered,
\* the interpreter exited, or main logged the error and returned.
Aborted ==
    \/ run_status \in {"raised", "exited"}
    \/ entry = "main" /\ run_status = "returned"

\* C23: a stage whose work fails is the last stage called and the run ends
\* on that failure; in particular after a failed process_all_join neither
\* process_final_id nor any later stage is called. The join stage is called
\* by associate_join_data (lines 154-161), so the statement is about a call
\* of that function with a configuration; main calls it at line 233.
C23_StageFailureStopsPipeline ==
    \A i \in 1..Len(ran) : WorkFailed(i) => i = Len(ran) /\ Aborted

\* C27: when main has ended, its configuration was loaded and is whole
\* and the work of every stage it called succeeded, it has called all the
\* stages once each in the order of the stage list and the last log entry
\* is 'Association process completed.'.
C27_StagesInOrderThenCompleted ==
    (/\ entry = "main"
     /\ run_status # "running"
     /\ stage >= 1
     /\ config = WholeConfig
     /\ \A i \in 1..Len(ran) : ran[i].work = "ok") =>
        /\ [i \in 1..Len(ran) |-> ran[i].stage] = MainStages
        /\ plog # <<>>
        /\ plog[Len(plog)] = completed

\* =================================================== Coordinates properties
\* The cell is exactly the text "POINT (<lon> <lat>)" of two numbers.
WellFormedWKT(cell) ==
    \E lon \in Digits, lat \in Digits :
        cell = WKTPoint(DigitValue(lon), DigitValue(lat))

\* C24: extract_coordinates returns the null pair for a null cell and for
\* the empty string, (lat, lon) for a well-formed "POINT (<lon> <lat>)"
\* text, and raises ValueError for every other string.
C24_ParsesPointOrFails ==
    cpc = "done" =>
        IF wkt_cell = NoWKT \/ wkt_cell = <<>>
        THEN coordinates = <<None, None>>
        ELSE IF WellFormedWKT(wkt_cell)
        THEN coordinates = <<DigitValue(wkt_cell[10]), DigitValue(wkt_cell[8])>>
        ELSE coordinates = InvalidWKT

\* ================================================== Ledger call properties
\* C28: a call of update_stats with a description that is not in the ledger
\* raises KeyError and leaves the ledger table and stats_list as they were;
\* a call with a description of the ledger appends exactly one count to
\* stats_list and changes the count of the row of that description only.
C28_UpdateStatsAllOrNothing ==
    call # NoCall =>
        IF ~HasDescription(call.description)
        THEN /\ ledger.error
             /\ ledger.bridges = before.bridges
             /\ ledger.stats_list = before.stats_list
        ELSE /\ ~ledger.error
             /\ ledger.stats_list = Append(before.stats_list, call.count)
             /\ \A i \in 1..Len(Description) :
                    ledger.bridges[i] =
                        IF Description[i] = call.description THEN call.count
                        ELSE before.bridges[i]

\* C28 witness: a first call has set a row to 2, and a second call with a
\* description that is not in the ledger has raised and changed nothing.
C28_Witness ==
    /\ ucalls = 2
    /\ call.description = "Not editing: Other"
    /\ ledger.error
    /\ ledger.stats_list = <<2>>
    /\ ledger.bridges[9] = 2

\* ------------------------------------------------- Extractor properties
\* The buffers an iteration can be made with, and the iterations so far.
Iteration(k) == iterations[k]

\* C29: the loop of iterative_intersection_process makes at most
\* max_iterations iterations, no iteration uses a buffer larger than
\* max_buffer, and a bridge matched in one iteration is absent from the
\* working table of every later iteration, so that each bridge_id is
\* matched in at most one iteration.
C29_BoundedLoopMatchesOnce ==
    ipc \in {"loop", "done", "failed"} =>
        /\ Len(iterations) \in {iteration_count, iteration_count + 1}
        /\ Len(iterations) = iteration_count + 1 => ipc = "failed"
        /\ Len(iterations) <= iter_params.max_iterations
        /\ \A k \in 1..Len(iterations) :
            /\ Iteration(k).buffer <= iter_params.max_buffer
            /\ Iteration(k).matched \subseteq Iteration(k).working
            /\ \A j \in 1..(k - 1) :
                /\ Iteration(j).buffer < Iteration(k).buffer
                /\ Iteration(j).matched \cap Iteration(k).working = {}
                /\ Iteration(j).matched \cap Iteration(k).matched = {}
        /\ \A k \in 1..Len(iterations) :
            Iteration(k).matched \cap processed_ids(link_df) = {}

\* A finished run in which one bridge was matched by the first buffer, a
\* second bridge by a larger buffer of a later iteration, while the first
\* bridge was no longer worked on.
C29_Witness ==
    /\ ipc = "done"
    /\ Len(iterations) >= 2
    /\ Iteration(1).matched = {1}
    /\ \E k \in 2..Len(iterations) :
        /\ Iteration(k).matched = {2}
        /\ Iteration(k).working = {2}
        /\ Iteration(k).buffer > default_buffer_size

\* ---------------------------------------------------- Walker properties
\* The walk ends within one call per way and one more, and no way id is
\* appended to visited twice.
ExtendTerminatesVisitsOnce ==
    /\ calls <= Len(all_lines_with_ids) + 1
    /\ wpc = "walk" => calls <= Len(all_lines_with_ids)
    /\ \A j, k \in 1..Len(visited) : visited[j] = visited[k] => j = k

\* The last call returns no point exactly when it found no possible next
\* line or more than one; otherwise the point lies on the single possible
\* line at the remaining distance from the connection point.
ExtendReturnsByCase ==
    wpc = "returned" =>
        /\ walk_result.point = NoPoint <=> possible # 1
        /\ possible = 1 =>
            LET last == walk_path[Len(walk_path)]
            IN  /\ walk_result.way_id = last.way_id
                /\ walk_result.point.geom = last.way_id - WayId(0)

\* C30: extend_along_connected_way terminates on every finite network,
\* appends each way id to visited at most once, returns no point exactly
\* when the connection point has no unvisited connected way or more than
\* one, and otherwise returns a point on the single connected way or goes
\* on beyond that way: every further way is entered at the far end of the
\* way walked before it.
C30_ExtendTerminatesAndContinues ==
    /\ ExtendTerminatesVisitsOnce
    /\ ExtendReturnsByCase
    /\ \A k \in 2..Len(walk_path) :
        walk_path[k].entered_at = walk_path[k - 1].far_end

====
